---- MODULE Spec2Model ----
(***************************************************************************)
(* Post-approval pipeline of the accident-report intake service:           *)
(*   backend/app/services/clio_pipeline.py   run_pipeline and its helpers  *)
(*   backend/app/services/clio_client.py     ClioClient._request           *)
(*   backend/app/services/document_gen.py    retainer generation, poller   *)
(*   backend/app/services/calendar.py        statute-of-limitations entry  *)
(*   backend/app/services/email_sender.py    client email                  *)
(*                                                                         *)
(* Python values are encoded as follows.  A str is a TLA+ string; the      *)
(* value None of an Optional[str] is the sentinel NoneS.  An Optional[int] *)
(* is an integer and None is NoneId.  bytes are represented by their       *)
(* length (0 is b""), None by NoneId.  A FieldExtraction is represented by *)
(* its .value, the only attribute the pipeline reads.                      *)
(***************************************************************************)
EXTENDS Integers, Sequences, FiniteSets, TLC

NoneS == "<None>"
NoneId == -1

\* Python truthiness of an Optional[str]: None and "" are falsy.
Truthy(s) == s # NoneS /\ s # ""

\* Python truthiness of an Optional[int] / Optional[bytes] (by length).
TruthyInt(i) == i # NoneId /\ i # 0

\* `a or b` on Optional[str].
Or(a, b) == IF Truthy(a) THEN a ELSE b

(***************************************************************************)
(* String helpers.                                                         *)
(***************************************************************************)
RECURSIVE LStrip(_)
LStrip(s) ==
    IF Len(s) > 0 /\ SubSeq(s, 1, 1) = " " THEN LStrip(SubSeq(s, 2, Len(s))) ELSE s

RECURSIVE RStrip(_)
RStrip(s) ==
    IF Len(s) > 0 /\ SubSeq(s, Len(s), Len(s)) = " "
    THEN RStrip(SubSeq(s, 1, Len(s) - 1))
    ELSE s

\* str.strip() for blanks.
Strip(s) == RStrip(LStrip(s))

RECURSIVE Join(_)
\* " ".join(parts)
Join(parts) ==
    IF Len(parts) = 0 THEN ""
    ELSE IF Len(parts) = 1 THEN parts[1]
    ELSE parts[1] \o " " \o Join(Tail(parts))

\* s.find(ch) + 1: the position of the first ch in s, 0 if there is none.
Find(s, ch) ==
    IF \E i \in 1..Len(s) : SubSeq(s, i, i) = ch
    THEN CHOOSE i \in 1..Len(s) :
            /\ SubSeq(s, i, i) = ch
            /\ \A j \in 1..(i - 1) : SubSeq(s, j, j) # ch
    ELSE 0

RECURSIVE Words(_)
\* s.split(): the blank-separated words of s.
Words(s) ==
    LET t == LStrip(s)
        sp == Find(t, " ")
    IN  IF Len(t) = 0 THEN <<>>
        ELSE IF sp = 0 THEN <<t>>
        ELSE <<SubSeq(t, 1, sp - 1)>> \o Words(SubSeq(t, sp + 1, Len(t)))

\* _split_name: 'LAST, FIRST' or 'FIRST LAST' into <<first_name, last_name>>.
SplitName(full_name) ==
    LET comma == Find(full_name, ",")
        parts == Words(full_name)
    IN  IF comma # 0
        THEN <<Strip(SubSeq(full_name, comma + 1, Len(full_name))),
               Strip(SubSeq(full_name, 1, comma - 1))>>
        ELSE IF Len(parts) >= 2 THEN <<parts[1], Join(Tail(parts))>>
        ELSE <<Strip(full_name), "">>

(***************************************************************************)
(* Dates.  An accident date is a string; strptime(s, "%Y-%m-%d") accepts   *)
(* four year digits, one or two month digits and one or two day digits,    *)
(* and raises ValueError otherwise or when the day is not in the month.    *)
(***************************************************************************)
Digits == <<"0", "1", "2", "3", "4", "5", "6", "7", "8", "9">>

IsDigit(c) == \E i \in 1..10 : Digits[i] = c

DigitVal(c) == (CHOOSE i \in 1..10 : Digits[i] = c) - 1

AllDigits(s) == \A i \in 1..Len(s) : IsDigit(SubSeq(s, i, i))

RECURSIVE ToInt(_)
ToInt(s) ==
    IF Len(s) = 0 THEN 0
    ELSE 10 * ToInt(SubSeq(s, 1, Len(s) - 1)) + DigitVal(SubSeq(s, Len(s), Len(s)))

IsLeap(y) == (y % 4 = 0 /\ y % 100 # 0) \/ y % 400 = 0

DaysInMonth(y, m) ==
    IF m = 2 THEN (IF IsLeap(y) THEN 29 ELSE 28)
    ELSE IF m \in {4, 6, 9, 11} THEN 30 ELSE 31

ValidDate(y, m, d) == y >= 1 /\ m \in 1..12 /\ d >= 1 /\ d <= DaysInMonth(y, m)

BadDate == [ok |-> FALSE, y |-> 0, m |-> 0, d |-> 0]

\* The month and day parts of s after the "YYYY-" prefix: "M-D", "MM-D", ...
ParseMonthDay(y, rest) ==
    LET n == Len(rest)
        dash == IF n >= 2 /\ SubSeq(rest, 2, 2) = "-" THEN 2
                ELSE IF n >= 3 /\ SubSeq(rest, 3, 3) = "-" THEN 3 ELSE 0
    IN  IF dash = 0 THEN BadDate
        ELSE LET ms == SubSeq(rest, 1, dash - 1)
                 ds == SubSeq(rest, dash + 1, n)
             IN  IF Len(ds) \in {1, 2} /\ AllDigits(ms) /\ AllDigits(ds)
                    /\ ValidDate(y, ToInt(ms), ToInt(ds))
                 THEN [ok |-> TRUE, y |-> y, m |-> ToInt(ms), d |-> ToInt(ds)]
                 ELSE BadDate

\* datetime.strptime(s, "%Y-%m-%d").date(); ok = FALSE stands for ValueError.
Strptime(s) ==
    IF Len(s) >= 8 /\ AllDigits(SubSeq(s, 1, 4)) /\ SubSeq(s, 5, 5) = "-"
    THEN ParseMonthDay(ToInt(SubSeq(s, 1, 4)), SubSeq(s, 6, Len(s)))
    ELSE BadDate

\* mutant: a day past the end of the target month rolls over to the next month
AddYearsRollsOver(dt, n) ==
    LET y2 == dt.y + n
        dim == DaysInMonth(y2, dt.m)
    IN  IF ~dt.ok \/ y2 > 9999 THEN BadDate
        ELSE IF dt.d > dim THEN [ok |-> TRUE, y |-> y2, m |-> dt.m + 1, d |-> dt.d - dim]
        ELSE [ok |-> TRUE, y |-> y2, m |-> dt.m, d |-> dt.d]

\* date + relativedelta(years=n): the day is clipped to the target month, and
\* date.replace raises ValueError for a year past 9999 (ok = FALSE, as for a
\* date that did not parse).
AddYears(dt, n) ==
    LET y2 == dt.y + n
        dim == DaysInMonth(y2, dt.m)
    IN  IF ~dt.ok \/ y2 > 9999 THEN BadDate
        ELSE [ok |-> TRUE, y |-> y2, m |-> dt.m, d |-> IF dt.d > dim THEN dim ELSE dt.d]

Pad2(n) == IF n < 10 THEN "0" \o ToString(n) ELSE ToString(n)

Pad4(n) ==
    IF n < 10 THEN "000" \o ToString(n)
    ELSE IF n < 100 THEN "00" \o ToString(n)
    ELSE IF n < 1000 THEN "0" \o ToString(n) ELSE ToString(n)

\* date.isoformat()
IsoFormat(dt) == Pad4(dt.y) \o "-" \o Pad2(dt.m) \o "-" \o Pad2(dt.d)

StatuteYears == 8

(***************************************************************************)
(* Extraction records (app/models/extraction.py) and the field mapper.     *)
(***************************************************************************)
Party(role, name, address, dob, phone, vy, vmake, vmodel, inj, insco, inspol) ==
    [role |-> role, full_name |-> name, address |-> address, date_of_birth |-> dob,
     phone |-> phone, vehicle_year |-> vy, vehicle_make |-> vmake,
     vehicle_model |-> vmodel, injuries |-> inj, insurance_company |-> insco,
     insurance_policy_number |-> inspol]

\* Index of the first party with the given role, 0 for None.
FindPartyByRole(extraction, role) ==
    LET hits == {i \in 1..Len(extraction.parties) : extraction.parties[i].role = role}
    IN  IF hits = {} THEN 0 ELSE CHOOSE i \in hits : \A j \in hits : i <= j

PartyName(party) == Or(party.full_name, "Unknown")

PartyVehicleStr(party) ==
    Join(SelectSeq(<<party.vehicle_year, party.vehicle_make, party.vehicle_model>>,
                   Truthy))

\* mutant: _add appends whatever the value is
AddFieldAnyValue(values, field_map, field_name, value) ==
    IF field_name \in DOMAIN field_map
    THEN Append(values, [custom_field |-> field_map[field_name], value |-> value])
    ELSE values

\* The nested _add: append when the field is mapped and the value is truthy.
AddField(values, field_map, field_name, value) ==
    IF field_name \in DOMAIN field_map /\ Truthy(value)
    THEN Append(values, [custom_field |-> field_map[field_name], value |-> value])
    ELSE values

OfficerStr(extraction) ==
    LET base == Or(extraction.reporting_officer_name, "")
        full == IF Truthy(extraction.reporting_officer_badge)
                THEN base \o " (Badge #" \o extraction.reporting_officer_badge \o ")"
                ELSE base
    IN  Or(Strip(full), NoneS)

PlaintiffFields(values, field_map, p) ==
    LET v1 == AddField(values, field_map, "Plaintiff Name", PartyName(p))
        v2 == AddField(v1, field_map, "Plaintiff Address", p.address)
        v3 == AddField(v2, field_map, "Plaintiff DOB", p.date_of_birth)
        v4 == AddField(v3, field_map, "Plaintiff Phone", p.phone)
        v5 == AddField(v4, field_map, "Plaintiff Vehicle", PartyVehicleStr(p))
    IN  AddField(v5, field_map, "Injuries Reported", p.injuries)

DefendantFields(values, field_map, d) ==
    LET v1 == AddField(values, field_map, "Defendant Name", PartyName(d))
        v2 == AddField(v1, field_map, "Defendant Address", d.address)
        v3 == AddField(v2, field_map, "Defendant Insurance", d.insurance_company)
        v4 == AddField(v3, field_map, "Defendant Policy Number",
                       d.insurance_policy_number)
    IN  AddField(v4, field_map, "Defendant Vehicle", PartyVehicleStr(d))

\* plaintiff / defendant are indexes into extraction.parties, 0 for None.
BuildCustomFieldValues(extraction, field_map, plaintiff, defendant, sol_date_str) ==
    LET v1 == AddField(<<>>, field_map, "Accident Date", extraction.accident_date)
        v2 == AddField(v1, field_map, "Accident Location", extraction.accident_location)
        v3 == AddField(v2, field_map, "Accident Description",
                       extraction.accident_description)
        v4 == AddField(v3, field_map, "Police Report Number", extraction.report_number)
        v5 == AddField(v4, field_map, "Weather Conditions",
                       extraction.weather_conditions)
        v6 == AddField(v5, field_map, "Reporting Officer", OfficerStr(extraction))
        v7 == IF plaintiff # 0
              THEN PlaintiffFields(v6, field_map, extraction.parties[plaintiff])
              ELSE v6
        v8 == IF defendant # 0
              THEN DefendantFields(v7, field_map, extraction.parties[defendant])
              ELSE v7
    IN  AddField(v8, field_map, "Statute of Limitations Date", sol_date_str)

(***************************************************************************)
(* Calendar resolution (app/services/calendar.py).                         *)
(***************************************************************************)
Upper == <<"A", "B", "C", "D", "E", "F", "G", "H", "I", "J", "K", "L", "M",
           "N", "O", "P", "Q", "R", "S", "T", "U", "V", "W", "X", "Y", "Z">>

LowerLetters == <<"a", "b", "c", "d", "e", "f", "g", "h", "i", "j", "k", "l", "m",
                  "n", "o", "p", "q", "r", "s", "t", "u", "v", "w", "x", "y", "z">>

LowerChar(c) ==
    IF \E i \in 1..26 : Upper[i] = c
    THEN LowerLetters[CHOOSE i \in 1..26 : Upper[i] = c]
    ELSE c

RECURSIVE Lower(_)
\* str.lower()
Lower(s) ==
    IF Len(s) = 0 THEN ""
    ELSE LowerChar(SubSeq(s, 1, 1)) \o Lower(SubSeq(s, 2, Len(s)))

\* `needle in hay` on strings.
Contains(hay, needle) ==
    \E i \in 1..(Len(hay) - Len(needle) + 1) : SubSeq(hay, i, i + Len(needle) - 1) = needle

\* mutant: the last matching calendar wins
ResolveCalendarIdLastMatch(calendars, attorney_name) ==
    IF Len(calendars) = 0 THEN NoneId
    ELSE LET name_lower == Strip(Lower(attorney_name))
             hits == {i \in 1..Len(calendars) :
                         name_lower # "" /\ Contains(Lower(calendars[i].name), name_lower)}
         IN  IF hits # {}
             THEN calendars[CHOOSE i \in hits : \A j \in hits : i >= j].id
             ELSE calendars[1].id

\* _resolve_calendar_id: calendars is a sequence of [id, name]; NoneId for None.
ResolveCalendarId(calendars, attorney_name) ==
    IF Len(calendars) = 0 THEN NoneId
    ELSE LET name_lower == Strip(Lower(attorney_name))
             hits == {i \in 1..Len(calendars) :
                         name_lower # "" /\ Contains(Lower(calendars[i].name), name_lower)}
         IN  IF hits # {}
             THEN calendars[CHOOSE i \in hits : \A j \in hits : i <= j].id
             ELSE calendars[1].id

(***************************************************************************)
(* The inputs of one run and the answers of the remote platform.           *)
(***************************************************************************)
ReyesParty ==
    Party("plaintiff", "REYES, GUILLERMO", "123 Main St", "1985-03-22", "718-555-0199",
          "2018", "TOYOTA", "CAMRY", "Neck pain", "GEICO", "POL-998877")

FrancoisParty ==
    Party("defendant", "FRANCOIS, LIONEL", "104-28 117 Street", "1955-05-09", NoneS,
          "2011", "FORD", "VAN", "No injuries reported", NoneS, NoneS)

NamelessParty ==
    Party("plaintiff", NoneS, NoneS, NoneS, NoneS, NoneS, NoneS, NoneS, NoneS, NoneS,
          NoneS)

\* build_mock_extraction of tests/test_pipeline.py
ExFull ==
    [accident_date |-> "2023-06-15", accident_location |-> "5th Ave and 42nd St",
     accident_description |-> "Vehicle 2 ran a red light. EMS responded.",
     report_number |-> "2023-00123", weather_conditions |-> "Clear",
     reporting_officer_name |-> "Officer Smith", reporting_officer_badge |-> "4521",
     parties |-> <<ReyesParty, FrancoisParty>>]

\* a record with nothing extracted
ExEmpty ==
    [accident_date |-> NoneS, accident_location |-> NoneS,
     accident_description |-> NoneS, report_number |-> NoneS,
     weather_conditions |-> NoneS, reporting_officer_name |-> NoneS,
     reporting_officer_badge |-> NoneS, parties |-> <<>>]

\* a plaintiff without a name and a date that is no calendar date
ExNameless ==
    [ExEmpty EXCEPT !.accident_date = "2023-02-30", !.parties = <<NamelessParty>>]

Extractions == {ExFull, ExEmpty, ExNameless}

\* matter_id argument of run_pipeline: None, 0 or an existing matter
MatterIdArgs == {NoneId, 0, 7}

FieldNames ==
    <<"Accident Date", "Accident Location", "Accident Description",
      "Police Report Number", "Weather Conditions", "Reporting Officer",
      "Plaintiff Name", "Plaintiff Address", "Plaintiff DOB", "Plaintiff Phone",
      "Plaintiff Vehicle", "Injuries Reported", "Defendant Name", "Defendant Address",
      "Defendant Insurance", "Defendant Policy Number", "Defendant Vehicle",
      "Statute of Limitations Date">>

EmptyMap == [n \in {} |-> 0]

FullMap ==
    [n \in {FieldNames[i] : i \in 1..Len(FieldNames)} |->
        100 + (CHOOSE i \in 1..Len(FieldNames) : FieldNames[i] = n)]

\* what GET /custom_fields can yield as a name -> id map
FieldMaps == {EmptyMap, FullMap}

\* who_am_i answers: user with id and name, or a payload without them
WhoAmIAnswers ==
    {[id |-> 11, name |-> "Andrew Richards"], [id |-> NoneId, name |-> NoneS]}

CalendarLists ==
    {<<>>, <<[id |-> 31, name |-> "Firm"], [id |-> 32, name |-> "andrew richards"]>>}

\* settings.smtp_user, settings.smtp_password
SmtpSettings == {<<"firm@example.com", "pw">>, <<"", "pw">>, <<"firm@example.com", "">>}

\* lengths of downloaded documents (0 is b"")
DocLengths == {0, 2048}

(***************************************************************************)
(* State of one run of run_pipeline.                                       *)
(***************************************************************************)
(***************************************************************************)
(* ClioClient: construction, the token cache, token refresh and the        *)
(* central request method.  Tokens are strings, "" being the empty token.  *)
(* The process-wide settings and the tokens file are shared by all client  *)
(* instances; every await is a point where another client may run.         *)
(***************************************************************************)
VARIABLES
    settings,      \* app.config.settings: clio_access_token, clio_refresh_token
    tokens_file,   \* .clio_tokens.json: absent, unreadable, or a token pair
    client,        \* per instance: _access_token, _refresh_token, Authorization
    req,           \* per instance: the _request call in progress or just ended
    issued,        \* token pairs issued by the token endpoint so far
    started,       \* _request calls started so far
    poll,          \* a call of poll_for_document_version observed on its own
    callbacks,     \* HTTP statuses answered by clio_callback so far
    replaced       \* refresh tokens the token endpoint has exchanged for a new pair

cvars == <<settings, tokens_file, client, req, issued, started, poll, callbacks,
           replaced>>

Clients == {"A", "B"}

\* bound on the number of _request calls started, all instances together
MaxRequests == 2

\* line 164
max_retries == 3

\* line 165
backoff_seconds == <<1, 2, 4>>

Min(a, b) == IF a <= b THEN a ELSE b

\* line 61: the Authorization header built from an access token
Bearer(access_token) == "Bearer " \o access_token

\* answers of the API to one attempt: status and body
Responses ==
    { [status |-> 200, content |-> "{\"data\": {}}"],
      [status |-> 200, content |-> ""],
      [status |-> 204, content |-> ""],
      [status |-> 401, content |-> "Unauthorized"],
      [status |-> 429, content |-> "Too Many Requests"],
      [status |-> 500, content |-> "Internal Server Error"] }

\* answers of the token endpoint: 200 with a fresh pair, or a rejection
TokenStatuses == {200, 400}

\* the token pair number n handed out by the token endpoint
NewAccessToken(n) == "access-" \o ToString(n)

NewRefreshToken(n) == "refresh-" \o ToString(n)

NoFile == [state |-> "absent", access_token |-> "", refresh_token |-> ""]

NoClient ==
    [alive |-> FALSE, access_token |-> "", refresh_token |-> "", authorization |-> ""]

NoValue == [kind |-> "none", body |-> ""]

IdleRequest ==
    [pc |-> "idle", raw_response |-> FALSE, attempt |-> 0, responses |-> <<>>,
     sent |-> <<>>, sleeps |-> <<>>, refreshes |-> <<>>, status |-> 0,
     value |-> NoValue]

\* mutant: a cached token replaces the in-memory one whenever the file has one
LoadTokensFromFileOverwrites(self, st, file) ==
    IF file.state # "ok"
    THEN [self |-> self, settings |-> st]
    ELSE LET a == Truthy(file.access_token)
             r == Truthy(file.refresh_token)
             a1 == IF a THEN file.access_token ELSE self.access_token
             r1 == IF r THEN file.refresh_token ELSE self.refresh_token
         IN  [self |-> [self EXCEPT !.access_token = a1, !.refresh_token = r1],
              settings |-> [access_token |-> IF a THEN file.access_token
                                             ELSE st.access_token,
                            refresh_token |-> IF r THEN file.refresh_token
                                              ELSE st.refresh_token]]

\* mutant: when either token is missing both are taken from the file
LoadTokensFromFileBoth(self, st, file) ==
    IF Truthy(self.access_token) /\ Truthy(self.refresh_token)
    THEN [self |-> self, settings |-> st]
    ELSE IF file.state # "ok"
    THEN [self |-> self, settings |-> st]
    ELSE [self |-> [self EXCEPT !.access_token = file.access_token,
                                !.refresh_token = file.refresh_token],
          settings |-> [access_token |-> file.access_token,
                        refresh_token |-> file.refresh_token]]

\* lines 66-81: tokens are read from the file only where the instance has
\* none; what is read is also written to the settings.  An absent file, or
\* one that does not parse, changes nothing.
LoadTokensFromFile(self, st, file) ==
    IF Truthy(self.access_token) /\ Truthy(self.refresh_token)
    THEN [self |-> self, settings |-> st]
    ELSE IF file.state # "ok"
    THEN [self |-> self, settings |-> st]
    ELSE LET a == ~Truthy(self.access_token) /\ Truthy(file.access_token)
             r == ~Truthy(self.refresh_token) /\ Truthy(file.refresh_token)
             a1 == IF a THEN file.access_token ELSE self.access_token
             r1 == IF r THEN file.refresh_token ELSE self.refresh_token
         IN  [self |-> [self EXCEPT !.access_token = a1, !.refresh_token = r1],
              settings |-> [access_token |-> IF a THEN file.access_token
                                             ELSE st.access_token,
                            refresh_token |-> IF r THEN file.refresh_token
                                              ELSE st.refresh_token]]

\* lines 83-97: the write either replaces the file or fails and is swallowed
SaveTokensToFile(self, file, written) ==
    IF written
    THEN [state |-> "ok", access_token |-> self.access_token,
          refresh_token |-> self.refresh_token]
    ELSE file

\* lines 40-57: ClioClient()
ClioClientInit(c) ==
    /\ ~client[c].alive
    /\ LET self0 == [alive |-> TRUE, access_token |-> settings.access_token,
                     refresh_token |-> settings.refresh_token, authorization |-> ""]
           loaded == LoadTokensFromFile(self0, settings, tokens_file)
       IN  /\ client' = [client EXCEPT ![c] =
                 [loaded.self EXCEPT !.authorization = Bearer(loaded.self.access_token)]]
           /\ settings' = loaded.settings
    /\ UNCHANGED <<tokens_file, req, issued, started, replaced>>

\* lines 143-165: a call of _request begins, raw_response being one of `raws`
StartRequestOf(c, raws) ==
    /\ client[c].alive
    /\ req[c].pc \in {"idle", "returned", "raised"}
    /\ started < MaxRequests
    /\ \E raw \in raws :
          req' = [req EXCEPT ![c] = [IdleRequest EXCEPT !.pc = "send",
                                                        !.raw_response = raw]]
    /\ started' = started + 1
    /\ UNCHANGED <<settings, tokens_file, client, issued, replaced>>

StartRequest(c) == StartRequestOf(c, BOOLEAN)

\* mutant: any 401 starts a refresh
ShouldRefreshOnAny401(status, attempt) == status = 401

\* line 177
ShouldRefresh(status, attempt) == status = 401 /\ attempt = 0

\* line 183
ShouldBackOff(status, attempt) == status = 429 /\ attempt < max_retries

\* lines 190-196: what _request returns for a 2xx answer
ReturnValue(raw_response, resp) ==
    IF raw_response THEN [kind |-> "bytes", body |-> resp.content]
    ELSE IF resp.status = 204 \/ resp.content = "" THEN [kind |-> "json", body |-> "{}"]
    ELSE [kind |-> "json", body |-> resp.content]

\* mutant: every failure is reported as a server error
RaiseApiErrorAs500(r, status) == [r EXCEPT !.pc = "raised", !.status = 500]

\* lines 199-201 and 123-124: raise ClioAPIError(status, ...)
RaiseApiError(r, status) == [r EXCEPT !.pc = "raised", !.status = status]

\* line 167: the next iteration of the loop; line 204 when the range is used up
Continue(r) ==
    IF r.attempt + 1 > max_retries THEN RaiseApiError(r, 429)
    ELSE [r EXCEPT !.pc = "send", !.attempt = r.attempt + 1]

\* lines 167-201: one attempt of the call and the handling of its answer,
\* the answer being one of `answers`
HttpRequestOf(c, answers) ==
    /\ req[c].pc = "send"
    /\ \E resp \in answers :
          LET r == [req[c] EXCEPT
                       !.responses = Append(@, resp),
                       !.sent = Append(@, client[c].authorization)]
          IN  req' = [req EXCEPT ![c] =
                 IF ShouldRefresh(resp.status, r.attempt)
                 THEN [r EXCEPT !.pc = "refresh"]
                 ELSE IF ShouldBackOff(resp.status, r.attempt)
                 THEN Continue([r EXCEPT !.sleeps = Append(@,
                         backoff_seconds[Min(r.attempt, Len(backoff_seconds) - 1) + 1])])
                 ELSE IF 200 <= resp.status /\ resp.status < 300
                 THEN [r EXCEPT !.pc = "returned", !.status = resp.status,
                                !.value = ReturnValue(r.raw_response, resp)]
                 ELSE RaiseApiError(r, resp.status)]
    /\ UNCHANGED <<settings, tokens_file, client, issued, started, replaced>>

HttpRequest(c) == HttpRequestOf(c, Responses)

\* mutant: after a rejected refresh the loop goes on to the next attempt
RefreshRejectedRetries(r, status) == Continue(r)

\* lines 123-124: a non-200 answer of the token endpoint is raised as
\* ClioAPIError with that status and leaves _request
RefreshRejected(r, status) == RaiseApiError(r, status)

\* mutant: a failed write of the tokens file fails the call
AfterRefreshWriteFatal(r, written) ==
    IF written THEN Continue(r) ELSE RaiseApiError(r, 500)

\* lines 138-139 and 179-180: _save_tokens_to_file swallows a failed write,
\* _refresh_access_token returns and the loop continues
AfterRefresh(r, written) == Continue(r)

\* lines 112-121: the refresh request is sent with the instance's refresh token
RefreshAccessTokenPost(c) ==
    /\ req[c].pc = "refresh"
    /\ req' = [req EXCEPT ![c] = [req[c] EXCEPT
                 !.pc = "refresh_wait",
                 !.refreshes = Append(@, [after |-> Len(req[c].responses),
                                          refresh_token |-> client[c].refresh_token,
                                          status |-> 0])]]
    /\ UNCHANGED <<settings, tokens_file, client, issued, started, replaced>>

\* lines 123-139 and 180: the token endpoint answered; it never accepts an
\* empty refresh token
RefreshAccessTokenReply(c) ==
    /\ req[c].pc = "refresh_wait"
    /\ \E status \in TokenStatuses, written \in BOOLEAN :
          /\ status = 200 => req[c].refreshes[Len(req[c].refreshes)].refresh_token # ""
          /\ LET r == [req[c] EXCEPT
                          !.refreshes = [@ EXCEPT ![Len(@)].status = status]]
             IN  IF status # 200
                 THEN /\ ~written
                      /\ req' = [req EXCEPT ![c] = RefreshRejected(r, status)]
                      /\ UNCHANGED <<settings, tokens_file, client, issued, replaced>>
                 ELSE LET self == [client[c] EXCEPT
                                      !.access_token = NewAccessToken(issued + 1),
                                      !.refresh_token = NewRefreshToken(issued + 1),
                                      !.authorization = Bearer(NewAccessToken(issued + 1))]
                      IN  /\ client' = [client EXCEPT ![c] = self]
                          /\ settings' = [access_token |-> self.access_token,
                                          refresh_token |-> self.refresh_token]
                          /\ tokens_file' = SaveTokensToFile(self, tokens_file, written)
                          /\ issued' = issued + 1
                          /\ replaced' = replaced \cup {r.refreshes[Len(r.refreshes)].refresh_token}
                          /\ req' = [req EXCEPT ![c] = AfterRefresh(r, written)]
    /\ UNCHANGED started

(***************************************************************************)
(* clio_callback (routers/clio_auth.py lines 43-101): the authorization    *)
(* code is exchanged for a token pair, which is stored in the settings and *)
(* written to the tokens file (a failed write is swallowed).               *)
(***************************************************************************)
\* bound on the number of OAuth callbacks received
MaxCallbacks == 1

ClioCallback ==
    /\ Len(callbacks) < MaxCallbacks
    /\ \E outcome \in {"error", "no code", "rejected", "exchanged"}, written \in BOOLEAN :
          IF outcome \in {"error", "no code"}
          THEN /\ ~written
               /\ callbacks' = Append(callbacks, 400)
               /\ UNCHANGED <<settings, tokens_file, issued, replaced>>
          ELSE IF outcome = "rejected"
          THEN /\ ~written
               /\ callbacks' = Append(callbacks, 502)
               /\ UNCHANGED <<settings, tokens_file, issued, replaced>>
          ELSE LET pair == [access_token |-> NewAccessToken(issued + 1),
                            refresh_token |-> NewRefreshToken(issued + 1)]
               IN  /\ settings' = pair
                   /\ tokens_file' = SaveTokensToFile(pair, tokens_file, written)
                   /\ issued' = issued + 1
                   /\ callbacks' = Append(callbacks, 200)
    /\ UNCHANGED <<client, req, started, poll, replaced>>

(***************************************************************************)
(* poll_for_document_version (document_gen.py lines 64-115) for any        *)
(* max_wait and interval > 0.  Each fetch is one _request call, which      *)
(* answers with a document that has a version, one that has none, or       *)
(* raises.                                                                 *)
(***************************************************************************)
PollIdle ==
    [pc |-> "idle", max_wait |-> 0, interval |-> 0, elapsed |-> 0, fetches |-> 0]

\* max_wait and interval arguments tried
PollMaxWaits == {0, 6, 7}

PollIntervals == {3, 4}

\* line 83: the loop test
PollLoop(p) ==
    IF p.elapsed < p.max_wait THEN [p EXCEPT !.pc = "fetch"]
    ELSE [p EXCEPT !.pc = "timed_out"]

\* mutant: the time waited is not added up
PollAdvanceForgets(p) == p

\* lines 107-108: await asyncio.sleep(interval); elapsed += interval
PollAdvance(p) == [p EXCEPT !.elapsed = @ + p.interval]

\* lines 81-83
PollStart ==
    /\ poll.pc = "idle"
    /\ \E w \in PollMaxWaits, i \in PollIntervals :
          poll' = PollLoop([PollIdle EXCEPT !.max_wait = w, !.interval = i])
    /\ UNCHANGED <<settings, tokens_file, client, req, issued, started, replaced>>

\* lines 84-108: one fetch of the document metadata and what follows it
PollFetch ==
    /\ poll.pc = "fetch"
    /\ LET p == [poll EXCEPT !.fetches = @ + 1]
       IN  \E answer \in {"version", "no version", "raises"} :
              poll' = CASE answer = "version" -> [p EXCEPT !.pc = "returned"]
                        [] answer = "raises" -> [p EXCEPT !.pc = "raised"]
                        [] OTHER -> PollLoop(PollAdvance(p))
    /\ UNCHANGED <<settings, tokens_file, client, req, issued, started, replaced>>

\* the client state while only run_pipeline is observed
ClientParked ==
    /\ settings = [access_token |-> "access-0", refresh_token |-> "refresh-0"]
    /\ tokens_file = NoFile
    /\ client = [c \in Clients |-> NoClient]
    /\ req = [c \in Clients |-> IdleRequest]
    /\ issued = 0
    /\ started = 0
    /\ poll = PollIdle
    /\ callbacks = <<>>
    /\ replaced = {}

\* the settings read from the environment (config.py lines 22-23) and the
\* tokens file as found at start-up
SettingsAtStart ==
    { [access_token |-> "access-0", refresh_token |-> "refresh-0"],
      [access_token |-> "", refresh_token |-> ""],
      [access_token |-> "access-0", refresh_token |-> ""] }

FilesAtStart ==
    { NoFile,
      [state |-> "unreadable", access_token |-> "", refresh_token |-> ""],
      [state |-> "ok", access_token |-> "access-f", refresh_token |-> "refresh-f"] }

VARIABLES
    input,      \* extraction, matter_id, smtp_user, smtp_password (read-only)
    pc,         \* position of the run
    steps,      \* list[PipelineStep]
    loc,        \* the local variables of run_pipeline
    calls,      \* every external call issued, in order
    mail,       \* messages handed to the mail server
    result,     \* what run_pipeline gave its caller
    contacts,   \* the contacts held by the platform: id, first_name, last_name
    run         \* number of the current run_pipeline call, from 1

pvars == <<input, pc, steps, loc, calls, mail, result, contacts, run>>

rvars == <<contacts, run>>

vars == <<settings, tokens_file, client, req, issued, started, poll, callbacks, replaced,
          input, pc, steps, loc, calls, mail, result, contacts, run>>

StepNames ==
    <<"authenticate", "map_custom_fields", "create_contact", "create_matter",
      "update_custom_fields", "update_stage", "generate_retainer",
      "create_calendar_entry", "send_email">>

NewStep(name) == [name |-> name, status |-> "running", detail |-> NoneS]

\* step.status = ...; step.detail = ... on the step appended last
SetLast(s, status, detail) ==
    [s EXCEPT ![Len(s)] = [@ EXCEPT !.status = status, !.detail = detail]]

\* The log of external calls: the operation, the step issuing it, its etag /
\* date / reason argument (NoneS if none) and whether it answered (ok) or raised.
Log(op, step, arg, ok) ==
    calls' = Append(calls, [op |-> op, step |-> step, arg |-> arg, ok |-> ok])

\* A call on a matter: the log entry also holds the matter id of the URL.
LogMatter(op, step, arg, ok) ==
    calls' = Append(calls, [op |-> op, step |-> step, arg |-> arg, ok |-> ok,
                            matter |-> loc.result_matter_id])

NoResult ==
    [kind |-> "none", success |-> FALSE, matter_id |-> NoneId, matter_url |-> NoneS,
     steps |-> <<>>]

\* PipelineResult(success=..., matter_id=..., matter_url=..., steps=...)
PipelineResult(success, matter_id, matter_url, s) ==
    [kind |-> "returned", success |-> success, matter_id |-> matter_id,
     matter_url |-> matter_url, steps |-> s]

\* an exception leaving run_pipeline
Raised(exc) ==
    [kind |-> "raised", success |-> FALSE, matter_id |-> NoneId, matter_url |-> exc,
     steps |-> <<>>]

\* mutant: a skipped step counts as a failure
AllSuccessOnlySuccess(s) == \A i \in 1..Len(s) : s[i].status = "success"

\* line 480: all(s.status in ("success", "skipped") for s in steps)
AllSuccess(s) == \A i \in 1..Len(s) : s[i].status \in {"success", "skipped"}

Plaintiff == FindPartyByRole(input.extraction, "plaintiff")

Defendant == FindPartyByRole(input.extraction, "defendant")

PlaintiffName ==
    IF Plaintiff # 0 THEN PartyName(input.extraction.parties[Plaintiff])
    ELSE "Unknown Client"

DefendantName ==
    IF Defendant # 0 THEN PartyName(input.extraction.parties[Defendant])
    ELSE "Unknown Defendant"

\* mutant: the contact is not resolved when the caller supplied a matter
HasPlaintiffNameUnlessMatter ==
    /\ Plaintiff # 0
    /\ Truthy(input.extraction.parties[Plaintiff].full_name)
    /\ ~TruthyInt(input.matter_id)

\* line 210: plaintiff and plaintiff.full_name.value
HasPlaintiffName ==
    Plaintiff # 0 /\ Truthy(input.extraction.parties[Plaintiff].full_name)

\* mutant: field_map starts from a stale map instead of {}
InitLocStaleMap ==
    [attorney_id |-> NoneId, attorney_name |-> NoneS, field_map |-> FullMap,
     contact_id |-> NoneId, result_matter_id |-> input.matter_id,
     result_matter_url |-> NoneS, result_matter_display_number |-> NoneS,
     pi_practice_area_id |-> NoneId, field_values |-> <<>>, etag |-> NoneS,
     stage_id |-> NoneId, retainer_doc |-> NoneId, retainer_bytes |-> NoneId,
     elapsed |-> 0, fallback |-> NoneS, value_error |-> NoneS, me_name |-> NoneS,
     calendars |-> <<>>, calendar_id |-> NoneId]

\* the locals of run_pipeline before step 1 (lines 151-155, 169-170, 190, 207, 349-350)
InitLoc ==
    [attorney_id |-> NoneId, attorney_name |-> NoneS, field_map |-> EmptyMap,
     contact_id |-> NoneId, result_matter_id |-> input.matter_id,
     result_matter_url |-> NoneS, result_matter_display_number |-> NoneS,
     pi_practice_area_id |-> NoneId, field_values |-> <<>>, etag |-> NoneS,
     stage_id |-> NoneId, retainer_doc |-> NoneId, retainer_bytes |-> NoneId,
     elapsed |-> 0, fallback |-> NoneS, value_error |-> NoneS, me_name |-> NoneS,
     calendars |-> <<>>, calendar_id |-> NoneId]

Init ==
    /\ \E ex \in Extractions, mid \in MatterIdArgs, smtp \in SmtpSettings :
          input = [extraction |-> ex, matter_id |-> mid, smtp_user |-> smtp[1],
                   smtp_password |-> smtp[2]]
    /\ pc = "authenticate"
    /\ steps = <<>>
    /\ loc = InitLoc
    /\ calls = <<>>
    /\ mail = <<>>
    /\ result = NoResult
    /\ contacts = <<>>
    /\ run = 1
    /\ ClientParked

(***************************************************************************)
(* run_pipeline.  One action per external call (each await) together with  *)
(* the synchronous code that follows it up to the next call.  A remote     *)
(* call either answers or raises (ClioAPIError or a transport error, never *)
(* a ValueError).  Identifiers assigned by the platform are positive.      *)
(***************************************************************************)
MatterUrl(id) == "https://app.clio.com/nc/#/matters/" \o ToString(id)

\* mutant: the early return carries the matter id the caller supplied
AuthFailureResultKeepsMatter(s) == PipelineResult(FALSE, input.matter_id, NoneS, s)

\* line 183: the result returned when authentication fails
AuthFailureResult(s) == PipelineResult(FALSE, NoneId, NoneS, s)

\* mutant: `is not None` instead of truthiness, so matter id 0 goes on
MatterGateIsNotNone(s, l) ==
    /\ steps' = s
    /\ IF l.result_matter_id # NoneId
       THEN /\ loc' = [l EXCEPT !.result_matter_url = MatterUrl(l.result_matter_id)]
            /\ pc' = "update_custom_fields"
            /\ result' = result
       ELSE /\ loc' = l
            /\ pc' = "done"
            /\ result' = PipelineResult(FALSE, NoneId, NoneS, s)

\* lines 275-278: stop without a matter id, else build the matter url
MatterGate(s, l) ==
    /\ steps' = s
    /\ IF TruthyInt(l.result_matter_id)
       THEN /\ loc' = [l EXCEPT !.result_matter_url = MatterUrl(l.result_matter_id)]
            /\ pc' = "update_custom_fields"
            /\ result' = result
       ELSE /\ loc' = l
            /\ pc' = "done"
            /\ result' = PipelineResult(FALSE, NoneId, NoneS, s)

\* STEP 1: who_am_i; a failure returns at once
Authenticate ==
    /\ pc = "authenticate"
    /\ LET s1 == Append(steps, NewStep("authenticate"))
       IN  \/ \E me \in WhoAmIAnswers :
                /\ Log("who_am_i", "authenticate", NoneS, TRUE)
                /\ loc' = [loc EXCEPT !.attorney_id = me.id, !.attorney_name = me.name]
                /\ steps' = SetLast(s1, "success", "Authenticated")
                /\ pc' = "map_custom_fields"
                /\ result' = result
           \/ /\ Log("who_am_i", "authenticate", NoneS, FALSE)
              /\ steps' = SetLast(s1, "error", "who_am_i failed")
              /\ pc' = "done"
              /\ result' = AuthFailureResult(steps')
              /\ loc' = loc
    /\ UNCHANGED <<input, mail>>

\* STEP 2: build_field_id_map; a failure leaves field_map empty
MapCustomFields ==
    /\ pc = "map_custom_fields"
    /\ LET s1 == Append(steps, NewStep("map_custom_fields"))
       IN  \/ \E fm \in FieldMaps :
                /\ Log("get_custom_fields", "map_custom_fields", NoneS, TRUE)
                /\ loc' = [loc EXCEPT !.field_map = fm]
                /\ steps' = SetLast(s1, "success", "Mapped custom fields")
           \/ /\ Log("get_custom_fields", "map_custom_fields", NoneS, FALSE)
              /\ steps' = SetLast(s1, "error", "get_custom_fields failed")
              /\ loc' = loc
    /\ pc' = "create_contact"
    /\ UNCHANGED <<input, mail, result>>

\* What a contact call returns: a raise (ok = FALSE), None (id = NoneId) or a
\* contact with a positive id.
Raises == [ok |-> FALSE, id |-> NoneId]

Returns(id) == [ok |-> TRUE, id |-> id]

FindAnswers == {Raises, Returns(NoneId), Returns(21)}

CreateAnswers == {Raises, Returns(22)}

\* mutant: a contact is created whenever the search completed
CreateContactOfIgnoresMatch(answers) ==
    /\ pc = "create_contact"
    /\ LET s1 == Append(steps, NewStep("create_contact"))
       IN  IF HasPlaintiffName
           THEN \E existing \in answers :
                   /\ Log("find_contact_by_name", "create_contact", NoneS, existing.ok)
                   /\ loc' = loc
                   /\ IF ~existing.ok
                      THEN /\ steps' = SetLast(s1, "error", "find_contact_by_name failed")
                           /\ pc' = "create_matter"
                      ELSE /\ steps' = s1
                           /\ pc' = "create_contact_post"
           ELSE /\ steps' = SetLast(s1, "skipped", "No plaintiff found in extraction data")
                /\ pc' = "create_matter"
                /\ UNCHANGED <<loc, calls>>
    /\ UNCHANGED <<input, mail, result>>

\* STEP 3, first half: search the plaintiff by name
CreateContactOf(answers) ==
    /\ pc = "create_contact"
    /\ LET s1 == Append(steps, NewStep("create_contact"))
       IN  IF HasPlaintiffName
           THEN \E existing \in answers :
                   /\ Log("find_contact_by_name", "create_contact", NoneS, existing.ok)
                   /\ IF ~existing.ok
                      THEN /\ loc' = loc
                           /\ steps' = SetLast(s1, "error", "find_contact_by_name failed")
                           /\ pc' = "create_matter"
                      ELSE IF existing.id # NoneId
                      THEN /\ loc' = [loc EXCEPT !.contact_id = existing.id]
                           /\ steps' = SetLast(s1, "success", "Found existing contact")
                           /\ pc' = "create_matter"
                      ELSE /\ loc' = loc
                           /\ steps' = s1
                           /\ pc' = "create_contact_post"
           ELSE /\ steps' = SetLast(s1, "skipped", "No plaintiff found in extraction data")
                /\ pc' = "create_matter"
                /\ UNCHANGED <<loc, calls>>
    /\ UNCHANGED <<input, mail, result>>

\* the platform raises, finds nothing, or returns contact 21 first
CreateContact == CreateContactOf(FindAnswers)

\* mutant: a failed create_contact ends the run
CreateContactPostOfAborts(answers) ==
    /\ pc = "create_contact_post"
    /\ \E contact \in answers :
          /\ Log("create_contact", "create_contact", NoneS, contact.ok)
          /\ IF contact.ok
             THEN /\ loc' = [loc EXCEPT !.contact_id = contact.id]
                  /\ steps' = SetLast(steps, "success", "Created contact")
                  /\ pc' = "create_matter"
                  /\ result' = result
             ELSE /\ loc' = loc
                  /\ steps' = SetLast(steps, "error", "create_contact failed")
                  /\ pc' = "done"
                  /\ result' = PipelineResult(FALSE, NoneId, NoneS, steps')
    /\ UNCHANGED <<input, mail>>

\* STEP 3, second half: no match, create the contact
CreateContactPostOf(answers) ==
    /\ pc = "create_contact_post"
    /\ \E contact \in answers :
          /\ Log("create_contact", "create_contact", NoneS, contact.ok)
          /\ IF contact.ok
             THEN /\ loc' = [loc EXCEPT !.contact_id = contact.id]
                  /\ steps' = SetLast(steps, "success", "Created contact")
             ELSE /\ loc' = loc
                  /\ steps' = SetLast(steps, "error", "create_contact failed")
    /\ pc' = "create_matter"
    /\ UNCHANGED <<input, mail, result>>

\* the platform raises or returns the new contact 22
CreateContactPost == CreateContactPostOf(CreateAnswers)

\* STEP 4, first half: supplied id, or practice-area lookup, or no contact
CreateMatter ==
    /\ pc = "create_matter"
    /\ LET s1 == Append(steps, NewStep("create_matter"))
       IN  IF TruthyInt(loc.result_matter_id)
           THEN /\ MatterGate(SetLast(s1, "skipped", "Using existing matter"), loc)
                /\ calls' = calls
           ELSE IF TruthyInt(loc.contact_id)
           THEN \/ \E pa \in {NoneId, 61} :
                     /\ Log("get_practice_areas", "create_matter", NoneS, TRUE)
                     /\ loc' = [loc EXCEPT !.pi_practice_area_id = pa]
                     /\ steps' = s1
                     /\ pc' = "create_matter_post"
                     /\ result' = result
                \/ /\ Log("get_practice_areas", "create_matter", NoneS, FALSE)
                   /\ MatterGate(SetLast(s1, "error", "get_practice_areas failed"), loc)
           ELSE /\ MatterGate(SetLast(s1, "error",
                                      "Cannot create matter: no contact ID available"),
                              loc)
                /\ calls' = calls
    /\ UNCHANGED <<input, mail>>

\* STEP 4, second half: POST /matters
CreateMatterPost ==
    /\ pc = "create_matter_post"
    /\ \/ \E id \in {8} :
            /\ Log("create_matter", "create_matter", NoneS, TRUE)
            /\ MatterGate(SetLast(steps, "success", "Created matter"),
                          [loc EXCEPT !.result_matter_id = id,
                                      !.result_matter_display_number = "00008-Reyes"])
       \/ /\ Log("create_matter", "create_matter", NoneS, FALSE)
          /\ MatterGate(SetLast(steps, "error", "create_matter failed"), loc)
    /\ UNCHANGED <<input, mail>>

\* sol_date_str of step 5; ok = FALSE when strptime raises
SolDateStr(accident_date) ==
    IF ~Truthy(accident_date) THEN [ok |-> TRUE, str |-> NoneS]
    ELSE LET sol_date == AddYears(Strptime(accident_date), StatuteYears)
         IN  IF sol_date.ok THEN [ok |-> TRUE, str |-> IsoFormat(sol_date)]
             ELSE [ok |-> FALSE, str |-> NoneS]

\* STEP 5, first half: build the values and fetch the etag
UpdateCustomFields ==
    /\ pc = "update_custom_fields"
    /\ LET s1 == Append(steps, NewStep("update_custom_fields"))
           sol == SolDateStr(input.extraction.accident_date)
           fv == BuildCustomFieldValues(input.extraction, loc.field_map, Plaintiff,
                                        Defendant, sol.str)
       IN  IF DOMAIN loc.field_map = {}
           THEN /\ steps' = SetLast(s1, "skipped", "No field map available")
                /\ pc' = "update_stage"
                /\ UNCHANGED <<loc, calls>>
           ELSE IF ~sol.ok
           THEN /\ steps' = SetLast(s1, "error", "ValueError: accident_date")
                /\ pc' = "update_stage"
                /\ UNCHANGED <<loc, calls>>
           ELSE IF Len(fv) = 0
           THEN /\ steps' = SetLast(s1, "skipped", "No field values to update")
                /\ pc' = "update_stage"
                /\ UNCHANGED <<loc, calls>>
           ELSE \/ \E e \in {"etag-a"} :
                     /\ LogMatter("get_matter", "update_custom_fields", e, TRUE)
                     /\ loc' = [loc EXCEPT !.field_values = fv, !.etag = e]
                     /\ steps' = s1
                     /\ pc' = "update_custom_fields_patch"
                \/ /\ LogMatter("get_matter", "update_custom_fields", NoneS, FALSE)
                   /\ loc' = loc
                   /\ steps' = SetLast(s1, "error", "get_matter failed")
                   /\ pc' = "update_stage"
    /\ UNCHANGED <<input, mail, result>>

\* mutant: a failed PATCH is issued once more
UpdateCustomFieldsPatchRetries ==
    /\ pc = "update_custom_fields_patch"
    /\ \/ /\ LogMatter("update_matter_custom_fields", "update_custom_fields", loc.etag, TRUE)
          /\ steps' = SetLast(steps, "success", "Updated custom fields")
          /\ pc' = "update_stage"
       \/ /\ LogMatter("update_matter_custom_fields", "update_custom_fields", loc.etag, FALSE)
          /\ IF calls[Len(calls)].op = "get_matter"
             THEN steps' = steps /\ pc' = pc
             ELSE /\ steps' = SetLast(steps, "error", "update_matter_custom_fields failed")
                  /\ pc' = "update_stage"
    /\ UNCHANGED <<input, loc, mail, result>>

\* STEP 5, second half: PATCH the custom fields with the etag just read
UpdateCustomFieldsPatch ==
    /\ pc = "update_custom_fields_patch"
    /\ \/ /\ LogMatter("update_matter_custom_fields", "update_custom_fields", loc.etag, TRUE)
          /\ steps' = SetLast(steps, "success", "Updated custom fields")
       \/ /\ LogMatter("update_matter_custom_fields", "update_custom_fields", loc.etag, FALSE)
          /\ steps' = SetLast(steps, "error", "update_matter_custom_fields failed")
    /\ pc' = "update_stage"
    /\ UNCHANGED <<input, loc, mail, result>>

\* the matter stages of the platform: none, none named "Data Verified", one
\* of the Personal Injury practice area (61), or one of another practice
\* area (62) listed before it
StageLists ==
    {<<>>,
     <<[id |-> 70, name |-> "Intake", practice_area |-> 61]>>,
     <<[id |-> 71, name |-> "Data Verified", practice_area |-> 61]>>,
     <<[id |-> 72, name |-> "Data verified (Family)", practice_area |-> 62],
       [id |-> 71, name |-> "Data Verified", practice_area |-> 61]>>}

\* the matter the caller supplies is a Personal Injury matter
ExistingMatter == [id |-> 7, practice_area |-> 61]

\* get_matter_stages: the practice_area_id parameter is sent only if truthy
GetMatterStages(all, practice_area_id) ==
    IF TruthyInt(practice_area_id)
    THEN SelectSeq(all, LAMBDA stage : stage.practice_area = practice_area_id)
    ELSE all

\* get_stage_id_by_name: first stage whose name contains the name, any case
GetStageIdByName(stages, name) ==
    LET hits == {i \in 1..Len(stages) : Contains(Lower(stages[i].name), Lower(name))}
    IN  IF hits = {} THEN NoneId
        ELSE stages[CHOOSE i \in hits : \A j \in hits : i <= j].id

\* The log entry of the stage lookup also holds the practice_area_id passed.
LogStages(practice_area_id, ok) ==
    calls' = Append(calls, [op |-> "get_matter_stages", step |-> "update_stage",
                            arg |-> NoneS, ok |-> ok,
                            practice_area |-> practice_area_id])

\* STEP 6, first part: look the stage up
UpdateStage ==
    /\ pc = "update_stage"
    /\ LET s1 == Append(steps, NewStep("update_stage"))
       IN  \/ \E all \in StageLists :
                LET stage_id == GetStageIdByName(
                                    GetMatterStages(all, loc.pi_practice_area_id),
                                    "Data Verified")
                IN  /\ LogStages(loc.pi_practice_area_id, TRUE)
                    /\ loc' = [loc EXCEPT !.stage_id = stage_id]
                    /\ IF TruthyInt(stage_id)
                       THEN /\ steps' = s1
                            /\ pc' = "update_stage_get"
                       ELSE /\ steps' = SetLast(s1, "skipped",
                                                "Stage 'Data Verified' not found in Clio")
                            /\ pc' = "generate_retainer"
           \/ /\ LogStages(loc.pi_practice_area_id, FALSE)
              /\ loc' = loc
              /\ steps' = SetLast(s1, "error", "get_matter_stages failed")
              /\ pc' = "generate_retainer"
    /\ UNCHANGED <<input, mail, result>>

\* mutant: the etag read in step 5 is kept for the write of step 6
UpdateStageGetKeepsEtag ==
    /\ pc = "update_stage_get"
    /\ \/ \E e \in {"etag-b"} :
            /\ LogMatter("get_matter", "update_stage", e, TRUE)
            /\ loc' = loc
            /\ steps' = steps
            /\ pc' = "update_stage_patch"
       \/ /\ LogMatter("get_matter", "update_stage", NoneS, FALSE)
          /\ loc' = loc
          /\ steps' = SetLast(steps, "error", "get_matter failed")
          /\ pc' = "generate_retainer"
    /\ UNCHANGED <<input, mail, result>>

\* STEP 6, second part: fetch the etag
UpdateStageGet ==
    /\ pc = "update_stage_get"
    /\ \/ \E e \in {"etag-b"} :
            /\ LogMatter("get_matter", "update_stage", e, TRUE)
            /\ loc' = [loc EXCEPT !.etag = e]
            /\ steps' = steps
            /\ pc' = "update_stage_patch"
       \/ /\ LogMatter("get_matter", "update_stage", NoneS, FALSE)
          /\ loc' = loc
          /\ steps' = SetLast(steps, "error", "get_matter failed")
          /\ pc' = "generate_retainer"
    /\ UNCHANGED <<input, mail, result>>

\* update_matter_stage(matter_id, etag, stage_id)
LogStageWrite(ok) ==
    calls' = Append(calls, [op |-> "update_matter_stage", step |-> "update_stage",
                            arg |-> loc.etag, ok |-> ok,
                            matter |-> loc.result_matter_id, stage |-> loc.stage_id])

\* mutant: a failed PATCH leaves the step as it is
UpdateStagePatchLeavesRunning ==
    /\ pc = "update_stage_patch"
    /\ \/ /\ LogStageWrite(TRUE)
          /\ steps' = SetLast(steps, "success", "Stage changed to 'Data Verified'")
       \/ /\ LogStageWrite(FALSE)
          /\ steps' = steps
    /\ pc' = "generate_retainer"
    /\ UNCHANGED <<input, loc, mail, result>>

\* STEP 6, third part: PATCH the stage
UpdateStagePatch ==
    /\ pc = "update_stage_patch"
    /\ \/ /\ LogStageWrite(TRUE)
          /\ steps' = SetLast(steps, "success", "Stage changed to 'Data Verified'")
       \/ /\ LogStageWrite(FALSE)
          /\ steps' = SetLast(steps, "error", "update_matter_stage failed")
    /\ pc' = "generate_retainer"
    /\ UNCHANGED <<input, loc, mail, result>>

PollMaxWait == 30
PollInterval == 3

TemplateNotFound == "Retainer agreement template not found in Clio"

NoAttachmentNote == " (PDF generation failed - email will be sent without attachment)"

\* STEP 7, first part: find_template_by_name("Retainer")
GenerateRetainer ==
    /\ pc = "generate_retainer"
    /\ LET s1 == Append(steps, NewStep("generate_retainer"))
       IN  \/ /\ Log("get_document_templates", "generate_retainer", "found", TRUE)
              /\ steps' = s1
              /\ loc' = loc
              /\ pc' = "generate_document"
           \/ \* no template: ValueError, handled by `except ValueError`
              /\ Log("get_document_templates", "generate_retainer", NoneS, TRUE)
              /\ steps' = s1
              /\ loc' = [loc EXCEPT !.value_error = TemplateNotFound,
                                    !.fallback = "no template"]
              /\ pc' = "local_in_handler"
           \/ /\ Log("get_document_templates", "generate_retainer", NoneS, FALSE)
              /\ steps' = SetLast(s1, "error", "get_document_templates failed")
              /\ loc' = loc
              /\ pc' = "create_calendar_entry"
    /\ UNCHANGED <<input, mail, result>>

\* STEP 7: generate_document_from_template, then the poll starts at elapsed = 0
GenerateDocument ==
    /\ pc = "generate_document"
    /\ \/ \E doc \in {91} :
            /\ Log("generate_document_from_template", "generate_retainer", NoneS, TRUE)
            /\ loc' = [loc EXCEPT !.retainer_doc = doc, !.elapsed = 0,
                                  !.fallback = IF 0 < PollMaxWait THEN @ ELSE "timeout"]
            /\ steps' = SetLast(steps, "running", "Clio doc")
            /\ pc' = IF 0 < PollMaxWait THEN "poll" ELSE "local_in_try"
       \/ /\ Log("generate_document_from_template", "generate_retainer", NoneS, FALSE)
          /\ loc' = loc
          /\ steps' = SetLast(steps, "error", "generate_document_from_template failed")
          /\ pc' = "create_calendar_entry"
    /\ UNCHANGED <<input, mail, result>>

\* mutant: a poll that times out raises instead of returning None
PollForDocumentVersionRaisesOnTimeout ==
    /\ pc = "poll"
    /\ loc.elapsed < PollMaxWait
    /\ \/ \* a version id is there: return doc
          /\ calls' = IF loc.elapsed = 0
                      THEN Append(calls, [op |-> "get_document",
                                          step |-> "generate_retainer",
                                          arg |-> NoneS, ok |-> TRUE])
                      ELSE calls
          /\ loc' = [loc EXCEPT !.elapsed = 0]
          /\ steps' = steps
          /\ pc' = "download"
       \/ \* not ready: sleep(interval), elapsed += interval, test the loop again
          /\ calls' = IF loc.elapsed = 0
                      THEN Append(calls, [op |-> "get_document",
                                          step |-> "generate_retainer",
                                          arg |-> NoneS, ok |-> TRUE])
                      ELSE calls
          /\ IF loc.elapsed + PollInterval < PollMaxWait
             THEN /\ loc' = [loc EXCEPT !.elapsed = @ + PollInterval]
                  /\ steps' = steps
                  /\ pc' = "poll"
             ELSE /\ loc' = [loc EXCEPT !.elapsed = 0]
                  /\ steps' = SetLast(steps, "error", "document version not ready")
                  /\ pc' = "create_calendar_entry"
       \/ \* the fetch raises
          /\ calls' = IF loc.elapsed = 0
                      THEN Append(calls, [op |-> "get_document",
                                          step |-> "generate_retainer",
                                          arg |-> NoneS, ok |-> FALSE])
                      ELSE [calls EXCEPT ![Len(calls)].ok = FALSE]
          /\ loc' = [loc EXCEPT !.elapsed = 0]
          /\ steps' = SetLast(steps, "error", "get_document failed")
          /\ pc' = "create_calendar_entry"
    /\ UNCHANGED <<input, mail, result>>

\* poll_for_document_version: one metadata fetch of the while loop.  elapsed is
\* local to the poller and is gone when it returns.  The log holds one
\* get_document entry per poll: while the loop runs, the number of fetches
\* issued so far is elapsed / PollInterval.
PollForDocumentVersion ==
    /\ pc = "poll"
    /\ loc.elapsed < PollMaxWait
    /\ \/ \* a version id is there: return doc
          /\ calls' = IF loc.elapsed = 0
                      THEN Append(calls, [op |-> "get_document",
                                          step |-> "generate_retainer",
                                          arg |-> NoneS, ok |-> TRUE])
                      ELSE calls
          /\ loc' = [loc EXCEPT !.elapsed = 0]
          /\ steps' = steps
          /\ pc' = "download"
       \/ \* not ready: sleep(interval), elapsed += interval, test the loop again
          /\ calls' = IF loc.elapsed = 0
                      THEN Append(calls, [op |-> "get_document",
                                          step |-> "generate_retainer",
                                          arg |-> NoneS, ok |-> TRUE])
                      ELSE calls
          /\ IF loc.elapsed + PollInterval < PollMaxWait
             THEN /\ loc' = [loc EXCEPT !.elapsed = @ + PollInterval]
                  /\ steps' = steps
                  /\ pc' = "poll"
             ELSE \* timed out: return None, download_retainer_pdf returns None
                  /\ loc' = [loc EXCEPT !.elapsed = 0, !.fallback = "timeout"]
                  /\ steps' = steps
                  /\ pc' = "local_in_try"
       \/ \* the fetch raises
          /\ calls' = IF loc.elapsed = 0
                      THEN Append(calls, [op |-> "get_document",
                                          step |-> "generate_retainer",
                                          arg |-> NoneS, ok |-> FALSE])
                      ELSE [calls EXCEPT ![Len(calls)].ok = FALSE]
          /\ loc' = [loc EXCEPT !.elapsed = 0]
          /\ steps' = SetLast(steps, "error", "get_document failed")
          /\ pc' = "create_calendar_entry"
    /\ UNCHANGED <<input, mail, result>>

\* download_retainer_pdf after a successful poll: clio.download_document
DownloadRetainerPdf ==
    /\ pc = "download"
    /\ \/ \E n \in DocLengths :
            /\ Log("download_document", "generate_retainer", NoneS, TRUE)
            /\ IF TruthyInt(n)
               THEN /\ loc' = [loc EXCEPT !.retainer_bytes = n]
                    /\ steps' = SetLast(steps, "success", "Clio doc, downloaded")
                    /\ pc' = "create_calendar_entry"
               ELSE /\ loc' = [loc EXCEPT !.retainer_bytes = n,
                                          !.fallback = "empty download"]
                    /\ steps' = steps
                    /\ pc' = "local_in_try"
       \/ /\ Log("download_document", "generate_retainer", NoneS, FALSE)
          /\ loc' = loc
          /\ steps' = SetLast(steps, "error", "download_document failed")
          /\ pc' = "create_calendar_entry"
    /\ UNCHANGED <<input, mail, result>>

\* what generate_retainer_locally can return: None or the bytes of a PDF
LocalResults == {NoneId, 2048}

\* lines 366-371: the step after local generation inside the try block
StepAfterLocalInTry(s, n) ==
    SetLast(s, "success",
            IF TruthyInt(n) THEN "Clio doc, local PDF generated"
            ELSE "Clio doc" \o NoAttachmentNote)

\* mutant: the handler reports like the try block does
StepAfterLocalInHandlerAsTry(s, n, e) ==
    IF TruthyInt(n) THEN SetLast(s, "success", "Local PDF generated")
    ELSE SetLast(s, "success", e \o NoAttachmentNote)

\* lines 378-383: the step after local generation inside `except ValueError`
StepAfterLocalInHandler(s, n, e) ==
    IF TruthyInt(n) THEN SetLast(s, "success", "Local PDF generated")
    ELSE SetLast(s, "skipped", e)

\* generate_retainer_locally called inside the try block (lines 363-371);
\* the log entry carries the reason of the fallback
GenerateLocallyInTry ==
    /\ pc = "local_in_try"
    /\ \/ \E n \in LocalResults :
            /\ Log("generate_retainer_locally", "generate_retainer", loc.fallback, TRUE)
            /\ loc' = [loc EXCEPT !.retainer_bytes = n]
            /\ steps' = StepAfterLocalInTry(steps, n)
            /\ pc' = "create_calendar_entry"
       \/ \* it raises a ValueError: caught by `except ValueError`
          /\ Log("generate_retainer_locally", "generate_retainer", loc.fallback, FALSE)
          /\ loc' = [loc EXCEPT !.value_error = "ValueError in local generation",
                                !.fallback = "value error"]
          /\ steps' = steps
          /\ pc' = "local_in_handler"
       \/ \* it raises something else: caught by `except Exception`
          /\ Log("generate_retainer_locally", "generate_retainer", loc.fallback, FALSE)
          /\ loc' = loc
          /\ steps' = SetLast(steps, "error", "local generation raised")
          /\ pc' = "create_calendar_entry"
    /\ UNCHANGED <<input, mail, result>>

\* generate_retainer_locally called inside `except ValueError` (lines 372-383);
\* an exception raised here is inside a handler and leaves run_pipeline
GenerateLocallyInHandler ==
    /\ pc = "local_in_handler"
    /\ \/ \E n \in LocalResults :
            /\ Log("generate_retainer_locally", "generate_retainer", loc.fallback, TRUE)
            /\ loc' = [loc EXCEPT !.retainer_bytes = n]
            /\ steps' = StepAfterLocalInHandler(steps, n, loc.value_error)
            /\ pc' = "create_calendar_entry"
            /\ result' = result
       \/ \E exc \in {"ValueError", "Exception"} :
            /\ Log("generate_retainer_locally", "generate_retainer", loc.fallback, FALSE)
            /\ loc' = loc
            /\ steps' = steps
            /\ pc' = "done"
            /\ result' = Raised(exc)
    /\ UNCHANGED <<input, mail>>

\* mutant: the attorney id is not looked at
CreateCalendarEntryOfDateOnly(answers) ==
    /\ pc = "create_calendar_entry"
    /\ LET s1 == Append(steps, NewStep("create_calendar_entry"))
           date == input.extraction.accident_date
       IN  IF ~Truthy(date)
           THEN /\ steps' = SetLast(s1, "skipped", "Missing accident_date or attorney_id")
                /\ pc' = "send_email"
                /\ UNCHANGED <<loc, calls>>
           ELSE IF ~AddYears(Strptime(date), StatuteYears).ok
           THEN /\ steps' = SetLast(s1, "error", "ValueError: accident_date")
                /\ pc' = "send_email"
                /\ UNCHANGED <<loc, calls>>
           ELSE \/ \E me \in answers :
                     /\ Log("who_am_i", "create_calendar_entry", NoneS, TRUE)
                     /\ loc' = [loc EXCEPT !.me_name = me.name]
                     /\ steps' = s1
                     /\ pc' = "calendar_list"
                \/ /\ Log("who_am_i", "create_calendar_entry", NoneS, FALSE)
                   /\ loc' = loc
                   /\ steps' = SetLast(s1, "error", "who_am_i failed")
                   /\ pc' = "send_email"
    /\ UNCHANGED <<input, mail, result>>

\* STEP 8, first part: guard, strptime, who_am_i
CreateCalendarEntryOf(answers) ==
    /\ pc = "create_calendar_entry"
    /\ LET s1 == Append(steps, NewStep("create_calendar_entry"))
           date == input.extraction.accident_date
       IN  IF ~(Truthy(date) /\ TruthyInt(loc.attorney_id))
           THEN /\ steps' = SetLast(s1, "skipped", "Missing accident_date or attorney_id")
                /\ pc' = "send_email"
                /\ UNCHANGED <<loc, calls>>
           ELSE IF ~AddYears(Strptime(date), StatuteYears).ok
           THEN /\ steps' = SetLast(s1, "error", "ValueError: accident_date")
                /\ pc' = "send_email"
                /\ UNCHANGED <<loc, calls>>
           ELSE \/ \E me \in answers :
                     /\ Log("who_am_i", "create_calendar_entry", NoneS, TRUE)
                     /\ loc' = [loc EXCEPT !.me_name = me.name]
                     /\ steps' = s1
                     /\ pc' = "calendar_list"
                \/ /\ Log("who_am_i", "create_calendar_entry", NoneS, FALSE)
                   /\ loc' = loc
                   /\ steps' = SetLast(s1, "error", "who_am_i failed")
                   /\ pc' = "send_email"
    /\ UNCHANGED <<input, mail, result>>

CreateCalendarEntry == CreateCalendarEntryOf(WhoAmIAnswers)

\* STEP 8: get_calendars and _resolve_calendar_id
ResolveCalendarOf(lists) ==
    /\ pc = "calendar_list"
    /\ \/ \E cals \in lists :
            /\ Log("get_calendars", "create_calendar_entry", NoneS, TRUE)
            /\ IF Len(cals) = 0
               THEN /\ loc' = [loc EXCEPT !.calendars = cals]
                    /\ steps' = SetLast(steps, "error", "No calendars found in Clio")
                    /\ pc' = "send_email"
               ELSE IF loc.me_name = NoneS
               THEN \* None.lower(): AttributeError
                    /\ loc' = [loc EXCEPT !.calendars = cals]
                    /\ steps' = SetLast(steps, "error", "AttributeError")
                    /\ pc' = "send_email"
               ELSE /\ loc' = [loc EXCEPT !.calendars = cals,
                                          !.calendar_id =
                                             ResolveCalendarId(cals, loc.me_name)]
                    /\ steps' = steps
                    /\ pc' = "calendar_create"
       \/ /\ Log("get_calendars", "create_calendar_entry", NoneS, FALSE)
          /\ loc' = loc
          /\ steps' = SetLast(steps, "error", "get_calendars failed")
          /\ pc' = "send_email"
    /\ UNCHANGED <<input, mail, result>>

ResolveCalendar == ResolveCalendarOf(CalendarLists)

\* the all-day entry's date: accident date + 8 years
SolEntryDate == IsoFormat(AddYears(Strptime(input.extraction.accident_date), StatuteYears))

\* STEP 8: POST /calendar_entries
CreateStatuteOfLimitationsEntry ==
    /\ pc = "calendar_create"
    /\ \/ /\ Log("create_calendar_entry", "create_calendar_entry", SolEntryDate, TRUE)
          /\ steps' = SetLast(steps, "success", "SOL calendar entry created")
       \/ /\ Log("create_calendar_entry", "create_calendar_entry", SolEntryDate, FALSE)
          /\ steps' = SetLast(steps, "error", "create_calendar_entry failed")
    /\ pc' = "send_email"
    /\ UNCHANGED <<input, loc, mail, result>>

\* mutant: the final result carries no matter url
FinishWithoutUrl(s) ==
    /\ steps' = s
    /\ pc' = "done"
    /\ result' = PipelineResult(AllSuccess(s), loc.result_matter_id, NoneS, s)

\* lines 480-493: the final result
Finish(s) ==
    /\ steps' = s
    /\ pc' = "done"
    /\ result' = PipelineResult(AllSuccess(s), loc.result_matter_id,
                                loc.result_matter_url, s)

\* mutant: the bytes are attached whenever they are not None
AttachmentUnlessNone(retainer_bytes) == retainer_bytes

\* send_client_email attaches retainer_pdf_bytes only when truthy
Attachment(retainer_bytes) == IF TruthyInt(retainer_bytes) THEN retainer_bytes ELSE NoneId

\* mutant: only the user name is looked at
SmtpConfiguredUserOnly == input.smtp_user # ""

\* line 422: settings.smtp_user and settings.smtp_password are both set
SmtpConfigured == input.smtp_user # "" /\ input.smtp_password # ""

\* STEP 9: skip without mail credentials, else send; then return the result
SendEmail ==
    /\ pc = "send_email"
    /\ LET s1 == Append(steps, NewStep("send_email"))
       IN  IF ~SmtpConfigured
           THEN /\ Finish(SetLast(s1, "skipped", "SMTP not configured"))
                /\ UNCHANGED <<calls, mail>>
           ELSE \/ /\ Log("smtp_send", "send_email", NoneS, TRUE)
                   /\ mail' = Append(mail, [attachment |-> Attachment(loc.retainer_bytes)])
                   /\ Finish(SetLast(s1, "success",
                                IF TruthyInt(loc.retainer_bytes)
                                THEN "Email sent (with PDF)"
                                ELSE "Email sent (without attachment)"))
                \/ /\ Log("smtp_send", "send_email", NoneS, FALSE)
                   /\ mail' = mail
                   /\ Finish(SetLast(s1, "error", "send_client_email failed"))
    /\ UNCHANGED <<input, loc>>

Next ==
    \/ Authenticate /\ UNCHANGED <<cvars, rvars>>
    \/ MapCustomFields /\ UNCHANGED <<cvars, rvars>>
    \/ CreateContact /\ UNCHANGED <<cvars, rvars>>
    \/ CreateContactPost /\ UNCHANGED <<cvars, rvars>>
    \/ CreateMatter /\ UNCHANGED <<cvars, rvars>>
    \/ CreateMatterPost /\ UNCHANGED <<cvars, rvars>>
    \/ UpdateCustomFields /\ UNCHANGED <<cvars, rvars>>
    \/ UpdateCustomFieldsPatch /\ UNCHANGED <<cvars, rvars>>
    \/ UpdateStage /\ UNCHANGED <<cvars, rvars>>
    \/ UpdateStageGet /\ UNCHANGED <<cvars, rvars>>
    \/ UpdateStagePatch /\ UNCHANGED <<cvars, rvars>>
    \/ GenerateRetainer /\ UNCHANGED <<cvars, rvars>>
    \/ GenerateDocument /\ UNCHANGED <<cvars, rvars>>
    \/ PollForDocumentVersion /\ UNCHANGED <<cvars, rvars>>
    \/ DownloadRetainerPdf /\ UNCHANGED <<cvars, rvars>>
    \/ GenerateLocallyInTry /\ UNCHANGED <<cvars, rvars>>
    \/ GenerateLocallyInHandler /\ UNCHANGED <<cvars, rvars>>
    \/ CreateCalendarEntry /\ UNCHANGED <<cvars, rvars>>
    \/ ResolveCalendar /\ UNCHANGED <<cvars, rvars>>
    \/ CreateStatuteOfLimitationsEntry /\ UNCHANGED <<cvars, rvars>>
    \/ SendEmail /\ UNCHANGED <<cvars, rvars>>

Spec == Init /\ [][Next]_vars

(***************************************************************************)
(* The clients alone: instances are constructed and issue requests while   *)
(* no pipeline step is observed.                                           *)
(***************************************************************************)
PipelineParked ==
    /\ input = [extraction |-> ExEmpty, matter_id |-> NoneId, smtp_user |-> "",
                smtp_password |-> ""]
    /\ pc = "done"
    /\ steps = <<>>
    /\ loc = InitLoc
    /\ calls = <<>>
    /\ mail = <<>>
    /\ result = NoResult
    /\ contacts = <<>>
    /\ run = 1

InitRequest ==
    /\ settings \in SettingsAtStart
    /\ tokens_file \in FilesAtStart
    /\ client = [c \in Clients |-> NoClient]
    /\ req = [c \in Clients |-> IdleRequest]
    /\ issued = 0
    /\ started = 0
    /\ poll = PollIdle
    /\ callbacks = <<>>
    /\ replaced = {}
    /\ PipelineParked

NextRequest ==
    \E c \in Clients :
        \/ ClioClientInit(c) /\ UNCHANGED <<pvars, poll, callbacks>>
        \/ StartRequest(c) /\ UNCHANGED <<pvars, poll, callbacks>>
        \/ HttpRequest(c) /\ UNCHANGED <<pvars, poll, callbacks>>
        \/ RefreshAccessTokenPost(c) /\ UNCHANGED <<pvars, poll, callbacks>>
        \/ RefreshAccessTokenReply(c) /\ UNCHANGED <<pvars, poll, callbacks>>

SpecRequest == InitRequest /\ [][NextRequest]_vars

(***************************************************************************)
(* The credential: clients are constructed, issue requests and refresh,    *)
(* and the OAuth callback may arrive at any time.  Rate limiting plays no  *)
(* part here, so the API answers 200, 401 or 500 to JSON requests.         *)
(***************************************************************************)
CredentialResponses ==
    {resp \in Responses :
        resp.status \in {401, 500} \/ (resp.status = 200 /\ resp.content # "")}

NextCredential ==
    \/ \E c \in Clients :
          \/ ClioClientInit(c) /\ UNCHANGED <<pvars, poll, callbacks>>
          \/ StartRequestOf(c, {FALSE}) /\ UNCHANGED <<pvars, poll, callbacks>>
          \/ HttpRequestOf(c, CredentialResponses) /\ UNCHANGED <<pvars, poll, callbacks>>
          \/ RefreshAccessTokenPost(c) /\ UNCHANGED <<pvars, poll, callbacks>>
          \/ RefreshAccessTokenReply(c) /\ UNCHANGED <<pvars, poll, callbacks>>
    \/ ClioCallback /\ UNCHANGED pvars

SpecCredential == InitRequest /\ [][NextCredential]_vars

(***************************************************************************)
(* The loops alone: one client issuing requests and one document poll.     *)
(* The event loop keeps running whatever is ready and every HTTP call      *)
(* answers or times out (the client is built with timeout=30.0), so a step *)
(* that can be taken is eventually taken.                                  *)
(***************************************************************************)
InitLoops ==
    /\ settings = [access_token |-> "access-0", refresh_token |-> "refresh-0"]
    /\ tokens_file = NoFile
    /\ client = [c \in Clients |-> NoClient]
    /\ req = [c \in Clients |-> IdleRequest]
    /\ issued = 0
    /\ started = 0
    /\ poll = PollIdle
    /\ callbacks = <<>>
    /\ replaced = {}
    /\ PipelineParked

NextLoops ==
    \/ ClioClientInit("A") /\ UNCHANGED <<pvars, poll, callbacks>>
    \/ StartRequest("A") /\ UNCHANGED <<pvars, poll, callbacks>>
    \/ HttpRequest("A") /\ UNCHANGED <<pvars, poll, callbacks>>
    \/ RefreshAccessTokenPost("A") /\ UNCHANGED <<pvars, poll, callbacks>>
    \/ RefreshAccessTokenReply("A") /\ UNCHANGED <<pvars, poll, callbacks>>
    \/ PollStart /\ UNCHANGED <<pvars, callbacks>>
    \/ PollFetch /\ UNCHANGED <<pvars, callbacks>>

SpecLoops == InitLoops /\ [][NextLoops]_vars /\ WF_vars(NextLoops)

(***************************************************************************)
(* Sequential runs against a platform that keeps its contacts.  The name   *)
(* search returns, first match first, the contacts whose first and last    *)
(* name are those the query splits into; create_contact adds a contact     *)
(* under a new id.  A contact records the run that created it, 0 if the    *)
(* platform held it before the first run.                                  *)
(***************************************************************************)
MaxRuns == 2

Contact(id, first_name, last_name, created_by) ==
    [id |-> id, first_name |-> first_name, last_name |-> last_name,
     created_by |-> created_by]

ContactsAtStart ==
    { <<>>,
      <<Contact(20, "LIONEL", "FRANCOIS", 0)>>,
      <<Contact(20, "LIONEL", "FRANCOIS", 0), Contact(23, "GUILLERMO", "REYES", 0),
        Contact(21, "GUILLERMO", "REYES", 0)>> }

\* params={"query": name}: the contacts the search returns, in order
SearchContacts(name) ==
    SelectSeq(contacts, LAMBDA c : <<c.first_name, c.last_name>> = SplitName(name))

\* find_contact_by_name on the platform: contacts[0] if contacts else None
FindOnPlatform ==
    IF ~HasPlaintiffName THEN Returns(NoneId)
    ELSE LET found == SearchContacts(input.extraction.parties[Plaintiff].full_name)
         IN  IF Len(found) > 0 THEN Returns(found[1].id) ELSE Returns(NoneId)

RECURSIVE MaxId(_)
MaxId(cs) ==
    IF Len(cs) = 0 THEN 0
    ELSE LET m == MaxId(Tail(cs)) IN IF cs[1].id > m THEN cs[1].id ELSE m

\* the contact the platform stores for create_contact(first_name, last_name)
NewContact ==
    LET nm == SplitName(input.extraction.parties[Plaintiff].full_name)
    IN  Contact(MaxId(contacts) + 1, nm[1], nm[2], run)

InitResolve ==
    /\ \E ex \in Extractions, mid \in {NoneId, 7} :
          input = [extraction |-> ex, matter_id |-> mid, smtp_user |-> "",
                   smtp_password |-> ""]
    /\ pc = "authenticate"
    /\ steps = <<>>
    /\ loc = InitLoc
    /\ calls = <<>>
    /\ mail = <<>>
    /\ result = NoResult
    /\ contacts \in ContactsAtStart
    /\ run = 1
    /\ ClientParked

\* step 3 against the platform: the search raises or answers from its contacts
FindContactOnPlatform ==
    /\ CreateContactOf({Raises, FindOnPlatform})
    /\ UNCHANGED <<cvars, rvars>>

\* create_contact against the platform: it stores the contact and answers, or
\* raises, with the contact stored or not (an answer lost on the way back)
CreateContactOnPlatform ==
    /\ \E ok \in BOOLEAN, stored \in BOOLEAN :
          /\ ok => stored
          /\ CreateContactPostOf({IF ok THEN Returns(NewContact.id) ELSE Raises})
          /\ contacts' = IF stored THEN Append(contacts, NewContact) ELSE contacts
    /\ UNCHANGED <<cvars, run>>

\* the caller approves the same extraction again once the run has ended
NextRun ==
    /\ result.kind # "none"
    /\ run < MaxRuns
    /\ run' = run + 1
    /\ pc' = "authenticate"
    /\ steps' = <<>>
    /\ loc' = InitLoc
    /\ calls' = <<>>
    /\ mail' = <<>>
    /\ result' = NoResult
    /\ UNCHANGED <<input, contacts, cvars>>

NextResolve ==
    \/ Authenticate /\ UNCHANGED <<cvars, rvars>>
    \/ MapCustomFields /\ UNCHANGED <<cvars, rvars>>
    \/ FindContactOnPlatform
    \/ CreateContactOnPlatform
    \/ CreateMatter /\ UNCHANGED <<cvars, rvars>>
    \/ CreateMatterPost /\ UNCHANGED <<cvars, rvars>>
    \/ UpdateCustomFields /\ UNCHANGED <<cvars, rvars>>
    \/ UpdateCustomFieldsPatch /\ UNCHANGED <<cvars, rvars>>
    \/ UpdateStage /\ UNCHANGED <<cvars, rvars>>
    \/ UpdateStageGet /\ UNCHANGED <<cvars, rvars>>
    \/ UpdateStagePatch /\ UNCHANGED <<cvars, rvars>>
    \/ GenerateRetainer /\ UNCHANGED <<cvars, rvars>>
    \/ GenerateDocument /\ UNCHANGED <<cvars, rvars>>
    \/ PollForDocumentVersion /\ UNCHANGED <<cvars, rvars>>
    \/ DownloadRetainerPdf /\ UNCHANGED <<cvars, rvars>>
    \/ GenerateLocallyInTry /\ UNCHANGED <<cvars, rvars>>
    \/ GenerateLocallyInHandler /\ UNCHANGED <<cvars, rvars>>
    \/ CreateCalendarEntry /\ UNCHANGED <<cvars, rvars>>
    \/ ResolveCalendar /\ UNCHANGED <<cvars, rvars>>
    \/ CreateStatuteOfLimitationsEntry /\ UNCHANGED <<cvars, rvars>>
    \/ SendEmail /\ UNCHANGED <<cvars, rvars>>
    \/ NextRun

SpecResolve == InitResolve /\ [][NextResolve]_vars

(***************************************************************************)
(* _build_custom_field_values alone: its arguments are drawn from records  *)
(* with fields present, None or "", with and without parties, and from     *)
(* full, partial and empty field maps; one step applies it.                *)
(***************************************************************************)
TopLevelFields ==
    {"accident_date", "accident_location", "accident_description", "report_number",
     "weather_conditions"}

\* a record whose top-level fields in present are set, the others being absent
TopLevel(present, absent) ==
    [accident_date |-> IF "accident_date" \in present THEN "2023-06-15" ELSE absent,
     accident_location |->
        IF "accident_location" \in present THEN "5th Ave and 42nd St" ELSE absent,
     accident_description |->
        IF "accident_description" \in present THEN "Rear-end collision." ELSE absent,
     report_number |-> IF "report_number" \in present THEN "2023-00123" ELSE absent,
     weather_conditions |-> IF "weather_conditions" \in present THEN "Clear" ELSE absent,
     reporting_officer_name |-> NoneS, reporting_officer_badge |-> NoneS,
     parties |-> <<>>]

\* reporting_officer_name, reporting_officer_badge
Officers ==
    {<<NoneS, NoneS>>, <<"", "">>, <<" ", NoneS>>, <<"Officer Smith", NoneS>>,
     <<NoneS, "4521">>, <<"Officer Smith", "4521">>}

EmptyStringParty == Party("plaintiff", "", "", "", "", "", "", "", "", "", "")

NamelessDefendant == [NamelessParty EXCEPT !.role = "defendant"]

PartyLists ==
    {<<>>, <<ReyesParty>>, <<FrancoisParty>>, <<ReyesParty, FrancoisParty>>,
     <<NamelessParty, NamelessDefendant>>, <<EmptyStringParty, FrancoisParty>>}

Restrict(f, names) == [n \in (DOMAIN f) \cap names |-> f[n]]

PartialMaps ==
    {EmptyMap, FullMap,
     Restrict(FullMap, {"Plaintiff Name", "Defendant Name"}),
     Restrict(FullMap, {FieldNames[i] : i \in {j \in 1..Len(FieldNames) : j % 2 = 0}})}

SolDateStrs == {NoneS, "", "2031-06-15"}

InitFields ==
    /\ \E present \in SUBSET TopLevelFields, absent \in {NoneS, ""},
          officer \in Officers, parties \in PartyLists,
          field_map \in PartialMaps, sol_date_str \in SolDateStrs :
          input = [extraction |->
                      [TopLevel(present, absent) EXCEPT
                          !.reporting_officer_name = officer[1],
                          !.reporting_officer_badge = officer[2],
                          !.parties = parties],
                   field_map |-> field_map, sol_date_str |-> sol_date_str,
                   matter_id |-> NoneId, smtp_user |-> "", smtp_password |-> ""]
    /\ pc = "build_custom_field_values"
    /\ steps = <<>>
    /\ loc = InitLoc
    /\ calls = <<>>
    /\ mail = <<>>
    /\ result = NoResult
    /\ contacts = <<>>
    /\ run = 1
    /\ ClientParked

\* values = _build_custom_field_values(extraction, field_map, plaintiff,
\* defendant, sol_date_str), the parties found by role as run_pipeline does
BuildFields ==
    /\ pc = "build_custom_field_values"
    /\ loc' = [loc EXCEPT !.field_map = input.field_map,
                          !.field_values =
                              BuildCustomFieldValues(input.extraction, input.field_map,
                                                     Plaintiff, Defendant,
                                                     input.sol_date_str)]
    /\ pc' = "built"
    /\ UNCHANGED <<input, steps, calls, mail, result, rvars, cvars>>

NextFields == BuildFields

SpecFields == InitFields /\ [][NextFields]_vars

(***************************************************************************)
(* The statute date alone: the accident date is drawn from every calendar  *)
(* day of a few years (leap years, years 8 before a century, the last      *)
(* years a date can hold); one step computes the custom-field value as     *)
(* step 5 does, the next the calendar entry's date as step 8 does.         *)
(***************************************************************************)
DateYears == {1892, 1992, 2019, 2020, 2023, 2092, 9991, 9992, 9999}

AccidentDates ==
    {IsoFormat([ok |-> TRUE, y |-> y, m |-> m, d |-> d]) :
        <<y, m, d>> \in {t \in DateYears \X (1..12) \X (1..31) :
                            ValidDate(t[1], t[2], t[3])}}
    \cup {"2020-2-29", "2023-6-5"}

InitDates ==
    /\ \E accident_date \in AccidentDates :
          input = [extraction |-> [ExEmpty EXCEPT !.accident_date = accident_date],
                   matter_id |-> 7, smtp_user |-> "", smtp_password |-> ""]
    /\ pc = "sol_date_str"
    /\ steps = <<>>
    /\ loc = [InitLoc EXCEPT !.field_map = FullMap]
    /\ calls = <<>>
    /\ mail = <<>>
    /\ result = NoResult
    /\ contacts = <<>>
    /\ run = 1
    /\ ClientParked

\* step 5, lines 289-299: sol_date_str and the values built with it
StatuteFieldValue ==
    /\ pc = "sol_date_str"
    /\ LET s1 == Append(steps, NewStep("update_custom_fields"))
           sol == SolDateStr(input.extraction.accident_date)
       IN  IF sol.ok
           THEN /\ loc' = [loc EXCEPT !.field_values =
                              BuildCustomFieldValues(input.extraction, loc.field_map,
                                                     Plaintiff, Defendant, sol.str)]
                /\ steps' = s1
           ELSE /\ loc' = loc
                /\ steps' = SetLast(s1, "error", "ValueError: accident_date")
    /\ pc' = "sol_date"
    /\ UNCHANGED <<input, calls, mail, result, rvars, cvars>>

\* calendar.py lines 64-67 and 82-83: the date of the all-day entry
StatuteEntryDate ==
    /\ pc = "sol_date"
    /\ LET s1 == Append(steps, NewStep("create_calendar_entry"))
       IN  IF AddYears(Strptime(input.extraction.accident_date), StatuteYears).ok
           THEN /\ Log("create_calendar_entry", "create_calendar_entry", SolEntryDate, TRUE)
                /\ steps' = s1
           ELSE /\ calls' = calls
                /\ steps' = SetLast(s1, "error", "ValueError: accident_date")
    /\ pc' = "sol_done"
    /\ UNCHANGED <<input, loc, mail, result, rvars, cvars>>

NextDates ==
    \/ StatuteFieldValue
    \/ StatuteEntryDate

SpecDates == InitDates /\ [][NextDates]_vars

(***************************************************************************)
(* create_statute_of_limitations_entry alone, from the call of step 8 on:  *)
(* who_am_i names the attorney, get_calendars answers any list of up to    *)
(* three calendars of the firm, then the entry is created.                 *)
(***************************************************************************)
FirmCalendars ==
    {[id |-> 31, name |-> "Firm"], [id |-> 32, name |-> "andrew richards"],
     [id |-> 33, name |-> "Andrew Richards (Court)"], [id |-> 34, name |-> "MAYA LEE"]}

MaxCalendars == 3

FetchedLists == UNION {[1..n -> FirmCalendars] : n \in 0..MaxCalendars}

\* me.get("name", ""): a name, "" for a payload without one, None for null
AttorneyAnswers ==
    {[id |-> 11, name |-> n] : n \in {"Andrew Richards", "ANDREW", "Maya Lee", "Nobody",
                                      "", NoneS}}

InitCalendar ==
    /\ input = [extraction |-> ExFull, matter_id |-> 7, smtp_user |-> "",
                smtp_password |-> ""]
    /\ pc = "create_calendar_entry"
    /\ steps = <<>>
    /\ loc = [InitLoc EXCEPT !.attorney_id = 11, !.attorney_name = "Andrew Richards"]
    /\ calls = <<>>
    /\ mail = <<>>
    /\ result = NoResult
    /\ contacts = <<>>
    /\ run = 1
    /\ ClientParked

NextCalendar ==
    \/ CreateCalendarEntryOf(AttorneyAnswers) /\ UNCHANGED <<cvars, rvars>>
    \/ ResolveCalendarOf(FetchedLists) /\ UNCHANGED <<cvars, rvars>>
    \/ CreateStatuteOfLimitationsEntry /\ UNCHANGED <<cvars, rvars>>

SpecCalendar == InitCalendar /\ [][NextCalendar]_vars

(***************************************************************************)
(* Properties of run_pipeline.                                             *)
(***************************************************************************)
Returned == result.kind = "returned"

Terminal(st) == st.status \in {"success", "error", "skipped"}

StepOver(i) == Len(steps) >= i /\ Terminal(steps[i])

LocalIdx == {i \in 1..Len(calls) : calls[i].op = "generate_retainer_locally"}

CallsOfStep(name) == {i \in 1..Len(calls) : calls[i].step = name}

OpsCalled == {calls[i].op : i \in 1..Len(calls)}

\* C1: for every combination of step outcomes run_pipeline returns a
\* PipelineResult and never raises; it stops early only after authenticate
\* (1 step) and after create_matter (4 steps), then with success = false and
\* the steps recorded so far.
C1_AlwaysReturnsResult ==
    pc = "done" =>
        /\ Returned
        /\ result.steps = steps
        /\ Len(result.steps) \in {1, 4, 9}
        /\ (Len(result.steps) < 9 => ~result.success)

\* C2: in every returned result, success holds iff no recorded step is error,
\* equivalently iff every recorded step is success or skipped; on the early
\* returns as on completion.
C2_SuccessIffNoError ==
    (pc = "done" /\ Returned) =>
        /\ result.steps = steps
        /\ result.success <=> (\A i \in 1..Len(result.steps) :
                                  result.steps[i].status # "error")
        /\ result.success <=> (\A i \in 1..Len(result.steps) :
                                  result.steps[i].status \in {"success", "skipped"})

C2_Witness ==
    /\ pc = "done"
    /\ Returned
    /\ Len(result.steps) = 9
    /\ result.success
    /\ \E i \in 1..9 : result.steps[i].status = "skipped"

\* C3: once authenticate succeeded and a matter id is available after
\* create_matter, the run ends with a returned result holding all nine steps
\* in order, each terminal: no later step is prevented from running.
C3_AllNineStepsRecorded ==
    (/\ pc = "done"
     /\ Len(steps) >= 4
     /\ steps[1].status = "success"
     /\ TruthyInt(loc.result_matter_id)) =>
        /\ Returned
        /\ Len(result.steps) = 9
        /\ \A i \in 1..Len(result.steps) :
              result.steps[i].name = StepNames[i] /\ Terminal(result.steps[i])

AuthFailed == Len(steps) >= 1 /\ steps[1].status = "error"

\* C4: when authenticate fails the run is over at once: the result holds the
\* single step authenticate (error), success = false, matter_id = null even
\* if the caller supplied one, and who_am_i is the only call issued.
C4_AuthFailureReturnsAtOnce ==
    AuthFailed =>
        /\ pc = "done"
        /\ Returned
        /\ ~result.success
        /\ result.matter_id = NoneId
        /\ Len(result.steps) = 1
        /\ result.steps[1].name = "authenticate"
        /\ result.steps[1].status = "error"
        /\ Len(calls) = 1
        /\ calls[1].op = "who_am_i"

C4_Witness == AuthFailed /\ TruthyInt(input.matter_id) /\ pc = "done"

NoMatterAfterStep4 == StepOver(4) /\ ~TruthyInt(loc.result_matter_id)

\* C5: when create_matter is over and no matter id resulted, the run stops:
\* four steps, create_matter error, success = false, matter_id and matter_url
\* null, and no call of steps 5 to 9 was issued.
C5_NoMatterStops ==
    NoMatterAfterStep4 =>
        /\ pc = "done"
        /\ Returned
        /\ result.steps = steps
        /\ Len(steps) = 4
        /\ \A i \in 1..4 : steps[i].name = StepNames[i]
        /\ steps[4].status = "error"
        /\ ~result.success
        /\ result.matter_id = NoneId
        /\ result.matter_url = NoneS
        /\ \A i \in 1..Len(calls) :
              calls[i].step \in {StepNames[j] : j \in 1..4}
        /\ mail = <<>>

C5_Witness ==
    /\ NoMatterAfterStep4
    /\ \E i \in 1..Len(calls) : calls[i].op = "create_matter" /\ ~calls[i].ok

\* A full happy path with a matter supplied by the caller: a complete record,
\* mail credentials present, every call answers, every lookup finds what it
\* looks for and the remote document is downloaded.
HappyPath ==
    /\ pc = "done"
    /\ Returned
    /\ TruthyInt(input.matter_id)
    /\ input.extraction = ExFull
    /\ SmtpConfigured
    /\ \A i \in 1..Len(calls) : calls[i].ok
    /\ {"update_matter_custom_fields", "update_matter_stage", "download_document",
        "create_calendar_entry", "smtp_send"} \subseteq OpsCalled
    /\ LocalIdx = {}

\* C6 as stated: on the happy path with a supplied matter id create_contact
\* and create_matter are both skipped, steps 5 to 9 are success, success is
\* true and matter_url is set.
C6_Original ==
    HappyPath =>
        /\ result.steps[3].status = "skipped"
        /\ result.steps[4].status = "skipped"
        /\ \A i \in 5..9 : result.steps[i].status = "success"
        /\ result.success
        /\ result.matter_url # NoneS

\* C6 amended: on that path only create_matter is skipped; create_contact
\* still resolves the plaintiff and ends success; steps 5 to 9 are success,
\* success is true, matter_url is set and matter_id is the supplied id.
C6_HappyPathWithMatter ==
    HappyPath =>
        /\ Len(result.steps) = 9
        /\ result.steps[3].status = "success"
        /\ "find_contact_by_name" \in OpsCalled
        /\ result.steps[4].status = "skipped"
        /\ ~("create_matter" \in OpsCalled)
        /\ \A i \in 5..9 : result.steps[i].status = "success"
        /\ result.success
        /\ result.matter_url # NoneS
        /\ result.matter_id = input.matter_id

C6_Witness == HappyPath /\ "create_contact" \in OpsCalled

MapFailed == Len(steps) >= 2 /\ steps[2].status = "error"

\* C7 as stated: after a failed map_custom_fields both update_custom_fields
\* and update_stage end skipped and no write to the matter is issued.
C7_Original ==
    (MapFailed /\ pc = "done" /\ Len(steps) = 9) =>
        /\ steps[5].status = "skipped"
        /\ steps[6].status = "skipped"
        /\ ~("update_matter_custom_fields" \in OpsCalled)
        /\ ~("update_matter_stage" \in OpsCalled)

\* C7 amended: after a failed map_custom_fields the run goes on;
\* update_custom_fields ends skipped and issues no call; update_stage is not
\* affected: it looks the stage up and ends skipped exactly when the lookup
\* answers without such a stage.
C7_MapFailureSkipsFieldsOnly ==
    MapFailed =>
        /\ (pc = "done" => Len(steps) >= 4)
        /\ (Len(steps) >= 5 => steps[5].status = "skipped")
        /\ CallsOfStep("update_custom_fields") = {}
        /\ (Len(steps) >= 6 =>
              \E i \in CallsOfStep("update_stage") : calls[i].op = "get_matter_stages")
        /\ (StepOver(6) =>
              (steps[6].status = "skipped" <=>
                  \E i \in CallsOfStep("update_stage") :
                      /\ calls[i].op = "get_matter_stages"
                      /\ calls[i].ok
                      /\ loc.stage_id = NoneId))

C7_Witness ==
    /\ MapFailed
    /\ StepOver(6)
    /\ steps[6].status = "success"
    /\ "update_matter_stage" \in OpsCalled

\* generate_retainer is over, local generation ran once, for the given
\* reason, and returned no document
NoDocumentAfter(reason) ==
    /\ StepOver(7)
    /\ Cardinality(LocalIdx) = 1
    /\ \A i \in LocalIdx : calls[i].arg = reason /\ calls[i].ok
    /\ ~TruthyInt(loc.retainer_bytes)

LaterStepsRun ==
    pc = "done" =>
        /\ Returned
        /\ Len(result.steps) = 9
        /\ Terminal(result.steps[8])
        /\ Terminal(result.steps[9])
        /\ \A i \in 1..Len(mail) : mail[i].attachment = NoneId

\* C8 as stated: when the remote path (template missing, or poll timeout) and
\* the local fallback both yield no document, generate_retainer is success
\* with the no-attachment note, and steps 8 and 9 still run.
C8_Original ==
    (NoDocumentAfter("no template") \/ NoDocumentAfter("timeout")) =>
        /\ steps[7].status = "success"
        /\ Contains(steps[7].detail, NoAttachmentNote)
        /\ LaterStepsRun

\* C8 amended: after a poll timeout and an empty local fallback the step is
\* success with the no-attachment note; after a missing template and an empty
\* local fallback it is skipped with the template-not-found message and no
\* such note; in both cases steps 8 and 9 still run and the mail, if sent,
\* has no attachment.
C8_NoDocumentOutcome ==
    /\ NoDocumentAfter("timeout") =>
          /\ steps[7].status = "success"
          /\ Contains(steps[7].detail, NoAttachmentNote)
          /\ LaterStepsRun
    /\ NoDocumentAfter("no template") =>
          /\ steps[7].status = "skipped"
          /\ steps[7].detail = TemplateNotFound
          /\ LaterStepsRun

C8_Witness ==
    /\ NoDocumentAfter("no template")
    /\ pc = "done"
    /\ Len(mail) = 1

FallbackTriggered ==
    \E i \in LocalIdx : calls[i].arg \in {"no template", "timeout"}

\* C9: a missing template and a poll timeout are fallback triggers: local
\* generation is then attempted exactly once, generate_retainer does not end
\* error (nor does the run raise), and when local generation yields bytes the
\* step is success and the mail attaches those bytes.
C9_FallbackNeverError ==
    (FallbackTriggered /\ (pc = "done" \/ Len(steps) >= 8)) =>
        /\ Cardinality(LocalIdx) = 1
        /\ result.kind # "raised"
        /\ StepOver(7)
        /\ steps[7].status # "error"
        /\ (TruthyInt(loc.retainer_bytes) =>
              /\ steps[7].status = "success"
              /\ \A i \in 1..Len(mail) : mail[i].attachment = loc.retainer_bytes)

(***************************************************************************)
(* Properties of ClioClient._request.                                      *)
(***************************************************************************)
StatusesSeen(r) == [i \in 1..Len(r.responses) |-> r.responses[i].status]

\* C10: within one _request call a token refresh happens at most once and
\* only in reaction to a 401 on the first attempt; 401 then 200 gives exactly
\* one refresh and returns the 200 payload; a 401 on any later attempt (after
\* the refresh or after a 429 retry) starts no refresh and fails the call
\* with an ApiError of status 401.
C10_RefreshOnlyOnFirst401 ==
    \A c \in Clients :
        LET r == req[c]
            n == Len(r.responses)
        IN  /\ Len(r.refreshes) <= 1
            /\ \A k \in 1..Len(r.refreshes) :
                  r.refreshes[k].after = 1 /\ r.responses[1].status = 401
            /\ (n >= 1 /\ r.responses[1].status = 401) =>
                  (r.pc = "refresh" \/ Len(r.refreshes) = 1)
            /\ \A i \in 2..n :
                  r.responses[i].status = 401 =>
                      /\ i = n
                      /\ r.pc = "raised"
                      /\ r.status = 401
                      /\ \A k \in 1..Len(r.refreshes) : r.refreshes[k].after < i
            /\ StatusesSeen(r) = <<401, 200>> =>
                  /\ r.pc = "returned"
                  /\ Len(r.refreshes) = 1
                  /\ r.refreshes[1].status = 200
                  /\ r.value = ReturnValue(r.raw_response, r.responses[2])
                  /\ r.sent[2] = Bearer(client[c].access_token)

C10_Witness ==
    \E c, d \in Clients :
        /\ StatusesSeen(req[c]) = <<401, 200>>
        /\ req[c].pc = "returned"
        /\ req[c].value.body = "{\"data\": {}}"
        /\ StatusesSeen(req[d]) = <<429, 401>>
        /\ req[d].pc = "raised"

\* the 429 answers among the first n answers of a call
Count429(r, n) == Cardinality({i \in 1..n : r.responses[i].status = 429})

\* C11: for any sequence of answers to one _request call, 429 is retried
\* with the schedule 1s, 2s, 4s (first retry 1s, second 2s, third 4s) and up
\* to 3 retries: 429 three times then 200 returns the 200 payload, and the
\* call fails with ApiError 429 only after the cap of 3 retries is exceeded.
C11_BackoffSchedule ==
    \A c \in Clients :
        LET r == req[c]
            n == Len(r.responses)
        IN  /\ Len(r.sleeps) <= 3
            /\ \A k \in 1..Len(r.sleeps) : r.sleeps[k] = backoff_seconds[k]
            /\ (r.pc = "send" => Len(r.sleeps) = Count429(r, n))
            /\ (r.pc = "raised" /\ n >= 1 /\ r.responses[n].status = 429) =>
                  (r.status = 429 /\ Count429(r, n) = 4 /\ r.sleeps = <<1, 2, 4>>)
            /\ StatusesSeen(r) = <<429, 429, 429, 200>> =>
                  /\ r.pc = "returned"
                  /\ r.sleeps = <<1, 2, 4>>
                  /\ r.value = ReturnValue(r.raw_response, r.responses[4])

\* an answer that is neither 2xx, nor a 401 to the first attempt, nor a 429
\* that is retried
Unrecoverable(resp, attempt) ==
    /\ ~(200 <= resp.status /\ resp.status < 300)
    /\ ~(resp.status = 401 /\ attempt = 0)
    /\ ~(resp.status = 429 /\ attempt < 3)

\* C12: an answer that is not 2xx, not a 401 to the first attempt and not a
\* retryable 429 makes _request fail at once with an ApiError of that same
\* status: the step that receives it sleeps no more and changes no
\* credential, and no further attempt of that call follows.
C12_UnrecoverableFailsAtOnce ==
    [][\A c \in Clients :
          /\ (/\ Len(req'[c].responses) = Len(req[c].responses) + 1
              /\ Unrecoverable(req'[c].responses[Len(req'[c].responses)],
                               req[c].attempt)) =>
                 /\ req'[c].pc = "raised"
                 /\ req'[c].status = req'[c].responses[Len(req'[c].responses)].status
                 /\ req'[c].sleeps = req[c].sleeps
                 /\ req'[c].refreshes = req[c].refreshes
                 /\ UNCHANGED <<settings, tokens_file, client, issued>>
          /\ (req[c].pc = "raised" /\ req'[c] # req[c]) =>
                 (req'[c].pc = "send" /\ req'[c].responses = <<>>)]_vars

C12_Witness ==
    \E c, d \in Clients :
        /\ req[c].pc = "raised"
        /\ StatusesSeen(req[c]) = <<429, 500>>
        /\ req[d].pc = "raised"
        /\ StatusesSeen(req[d]) = <<429, 429, 429, 429>>

\* ceil(a / b) for b > 0
CeilDiv(a, b) == (a + b - 1) \div b

InProgress(r) == r.pc \in {"send", "refresh", "refresh_wait"}

\* C13: every retry loop and poll loop terminates: one _request call issues
\* at most 4 attempts of the original call plus at most one token-refresh
\* call and then returns or fails; poll_for_document_version with
\* interval > 0 issues at most ceil(max_wait / interval) metadata fetches
\* and then returns.
C13_LoopsTerminate ==
    /\ [](/\ Len(req["A"].responses) <= 4
          /\ Len(req["A"].refreshes) <= 1
          /\ (poll.pc # "idle" =>
                 poll.fetches <= CeilDiv(poll.max_wait, poll.interval))
          /\ (poll.pc = "timed_out" =>
                 poll.fetches = CeilDiv(poll.max_wait, poll.interval)))
    /\ (InProgress(req["A"]) ~> req["A"].pc \in {"returned", "raised"})
    /\ (poll.pc = "fetch" ~> poll.pc \in {"returned", "raised", "timed_out"})

C13_Witness ==
    /\ req["A"].pc = "raised"
    /\ Len(req["A"].responses) = 4
    /\ Len(req["A"].refreshes) = 1
    /\ poll.pc = "timed_out"
    /\ poll.max_wait = 7
    /\ poll.fetches = 3

(***************************************************************************)
(* Properties of the shared credential.                                    *)
(***************************************************************************)
CredentialChanged == settings' # settings \/ tokens_file' # tokens_file

\* the step in which client c receives a 200 from the token endpoint
RefreshSucceeded(c) ==
    /\ req[c].pc = "refresh_wait"
    /\ req'[c].refreshes # <<>>
    /\ req'[c].refreshes[Len(req'[c].refreshes)].status = 200

CallbackSucceeded ==
    /\ Len(callbacks') = Len(callbacks) + 1
    /\ callbacks'[Len(callbacks')] = 200

\* the step in which client c is constructed; a token of the settings
\* changes only from empty to the cached one, the file is not written
Hydrated(c) ==
    /\ ~client[c].alive
    /\ client'[c].alive
    /\ tokens_file' = tokens_file
    /\ tokens_file.state = "ok"
    /\ settings'.access_token # settings.access_token =>
          (settings.access_token = "" /\ settings'.access_token = tokens_file.access_token)
    /\ settings'.refresh_token # settings.refresh_token =>
          (settings.refresh_token = "" /\ settings'.refresh_token = tokens_file.refresh_token)

\* C14 as stated: the shared credential (the process-wide token pair and the
\* tokens file) changes only in a successful token refresh; construction,
\* request handling, the OAuth callback and all else leave it unchanged.
C14_Original ==
    [][CredentialChanged => \E c \in Clients : RefreshSucceeded(c)]_vars

\* C14 amended: the shared credential changes only in a successful token
\* refresh, in a successful OAuth callback (both write the settings and the
\* tokens file), and in a client construction that copies a cached token
\* into a setting that was empty (the file is not written); sending a
\* request, a rejected refresh and a failed callback leave it unchanged.
C14_CredentialWriters ==
    [][/\ CredentialChanged =>
             \/ \E c \in Clients : RefreshSucceeded(c)
             \/ CallbackSucceeded
             \/ \E c \in Clients : Hydrated(c)
       /\ \A c \in Clients :
             (req[c].pc \in {"send", "refresh"} /\ req'[c] # req[c]) =>
                 ~CredentialChanged
       /\ \A c \in Clients :
             (req[c].pc = "refresh_wait" /\ req'[c].pc = "raised") =>
                 ~CredentialChanged
       /\ (callbacks' # callbacks /\ ~CallbackSucceeded) => ~CredentialChanged]_vars

C14_Witness ==
    /\ tokens_file.state = "ok"
    /\ callbacks = <<200>>
    /\ client["A"].alive
    /\ client["A"].access_token = "access-f"
    /\ settings.access_token = NewAccessToken(issued)
    /\ \E c \in Clients : req[c].refreshes # <<>>

\* the step in which client c sends an attempt of its call
Sends(c) == Len(req'[c].sent) = Len(req[c].sent) + 1

\* C15: after a successful refresh the new token pair is held by the
\* refreshing client, by the process-wide settings and by the tokens file,
\* and every later call on this client and on any sibling client is sent with
\* the new access token.
C15_NewTokenEverywhere ==
    [][/\ \A c \in Clients :
             RefreshSucceeded(c) =>
                 /\ client'[c].access_token = NewAccessToken(issued')
                 /\ client'[c].refresh_token = NewRefreshToken(issued')
                 /\ settings' = [access_token |-> NewAccessToken(issued'),
                                 refresh_token |-> NewRefreshToken(issued')]
                 /\ tokens_file' = [state |-> "ok",
                                    access_token |-> NewAccessToken(issued'),
                                    refresh_token |-> NewRefreshToken(issued')]
       /\ \A d \in Clients :
             (issued >= 1 /\ Sends(d)) =>
                 req'[d].sent[Len(req'[d].sent)] = Bearer(NewAccessToken(issued))]_vars

\* C16: with two runs in one process no double refresh occurs: no client
\* ever sends a refresh request carrying a refresh token that another
\* client's successful refresh has already replaced.
C16_NoDoubleRefresh ==
    [][\A c \in Clients :
          (req[c].pc = "refresh" /\ req'[c].pc = "refresh_wait") =>
              ~(client[c].refresh_token \in replaced)]_vars

(***************************************************************************)
(* Contact resolution.                                                     *)
(***************************************************************************)
\* the call this step appends to the log, if it is op
Issues(op) ==
    /\ Len(calls') = Len(calls) + 1
    /\ calls'[Len(calls')].op = op

\* the contacts the platform holds that a run created
CreatedByRuns == {i \in 1..Len(contacts) : contacts[i].created_by > 0}

MatchesNow == SearchContacts(input.extraction.parties[Plaintiff].full_name)

\* one step of a run obeys find-or-create
FindOrCreateStep ==
    /\ Issues("create_contact") =>
          /\ calls[Len(calls)].op = "find_contact_by_name"
          /\ calls[Len(calls)].ok
          /\ Len(MatchesNow) = 0
    /\ (pc = "create_contact_post" /\ pc' # pc) => Issues("create_contact")
    /\ Issues("find_contact_by_name") =>
          IF ~calls'[Len(calls')].ok
          THEN pc' # "create_contact_post" /\ loc'.contact_id = NoneId
          ELSE IF Len(MatchesNow) > 0
          THEN /\ pc' # "create_contact_post"
               /\ loc'.contact_id = MatchesNow[1].id
               /\ contacts' = contacts
          ELSE pc' = "create_contact_post"

\* C17: a create-contact call is issued exactly when the name search completed
\* and returned no match; on a match the first match's id is used and nothing
\* is created; on a failed search nothing is created; hence sequential runs for
\* one plaintiff name create at most one contact on a platform whose search
\* returns the contacts created before.
C17_FindOrCreate ==
    /\ [](Cardinality(CreatedByRuns) <= 1)
    /\ [][FindOrCreateStep]_vars

\* a later run has found the contact an earlier run created
C17_Witness ==
    /\ run > 1
    /\ \E i \in 1..Len(steps) :
          /\ steps[i].name = "create_contact"
          /\ steps[i].status = "success"
          /\ steps[i].detail = "Found existing contact"
    /\ \E i \in CreatedByRuns :
          contacts[i].created_by < run /\ contacts[i].id = loc.contact_id

(***************************************************************************)
(* The field mapper.                                                       *)
(***************************************************************************)
Built == pc = "built"

Entries == {loc.field_values[i] : i \in 1..Len(loc.field_values)}

\* the names of the supplied map that carry the id of entry e
NamesOf(e) == {n \in DOMAIN input.field_map : input.field_map[n] = e.custom_field}

\* C18: for every combination of present and absent record fields, parties and
\* field-map contents, no emitted entry has an empty or null value and every
\* emitted entry is for a field name of the supplied map.
C18_NoEmptyNoUnmapped ==
    Built => \A e \in Entries : e.value # NoneS /\ e.value # "" /\ NamesOf(e) # {}

\* values were emitted although some record fields are absent and some
\* business fields are not in the map
C18_Witness ==
    /\ Built
    /\ Len(loc.field_values) > 0
    /\ ~Truthy(input.extraction.accident_location)
    /\ Plaintiff # 0 /\ ~Truthy(input.extraction.parties[Plaintiff].address)
    /\ DOMAIN input.field_map # DOMAIN FullMap

\* a field of the party found by role, None when there is no such party
PartyValue(party, field) ==
    IF party = 0 THEN NoneS ELSE input.extraction.parties[party][field]

PartyVehicle(party) ==
    IF party = 0 THEN NoneS ELSE PartyVehicleStr(input.extraction.parties[party])

\* the record's value for a business field
RecordValue(field_name) ==
    CASE field_name = "Accident Date" -> input.extraction.accident_date
      [] field_name = "Accident Location" -> input.extraction.accident_location
      [] field_name = "Accident Description" -> input.extraction.accident_description
      [] field_name = "Police Report Number" -> input.extraction.report_number
      [] field_name = "Weather Conditions" -> input.extraction.weather_conditions
      [] field_name = "Reporting Officer" -> OfficerStr(input.extraction)
      [] field_name = "Plaintiff Name" -> PartyValue(Plaintiff, "full_name")
      [] field_name = "Plaintiff Address" -> PartyValue(Plaintiff, "address")
      [] field_name = "Plaintiff DOB" -> PartyValue(Plaintiff, "date_of_birth")
      [] field_name = "Plaintiff Phone" -> PartyValue(Plaintiff, "phone")
      [] field_name = "Plaintiff Vehicle" -> PartyVehicle(Plaintiff)
      [] field_name = "Injuries Reported" -> PartyValue(Plaintiff, "injuries")
      [] field_name = "Defendant Name" -> PartyValue(Defendant, "full_name")
      [] field_name = "Defendant Address" -> PartyValue(Defendant, "address")
      [] field_name = "Defendant Insurance" -> PartyValue(Defendant, "insurance_company")
      [] field_name = "Defendant Policy Number" ->
            PartyValue(Defendant, "insurance_policy_number")
      [] field_name = "Defendant Vehicle" -> PartyVehicle(Defendant)
      [] field_name = "Statute of Limitations Date" -> input.sol_date_str

EntriesFor(field_name) ==
    {i \in 1..Len(loc.field_values) :
        loc.field_values[i].custom_field = loc.field_map[field_name]}

\* C19: an entry is emitted for a business field only if the field name is in
\* the map and the record's value for the field is non-empty, so a party whose
\* extracted full name is absent gets no Plaintiff Name or Defendant Name entry;
\* and each business field yields at most one entry.
C19_OnlyMappedNonEmpty ==
    Built =>
        /\ \A e \in Entries : \E n \in NamesOf(e) : Truthy(RecordValue(n))
        /\ \A n \in DOMAIN input.field_map : Cardinality(EntriesFor(n)) <= 1

(***************************************************************************)
(* The statute date.                                                       *)
(***************************************************************************)
AccidentDate == Strptime(input.extraction.accident_date)

\* d plus 8 calendar years: same month and day, Feb 29 becoming Feb 28 when the
\* target year is no leap year
PlusEightYears ==
    LET y2 == AccidentDate.y + 8
    IN  IsoFormat([ok |-> TRUE, y |-> y2, m |-> AccidentDate.m,
                   d |-> IF AccidentDate.m = 2 /\ AccidentDate.d = 29 /\ ~IsLeap(y2)
                         THEN 28 ELSE AccidentDate.d])

\* the values written to the Statute of Limitations Date custom field
StatuteFieldValues ==
    {loc.field_values[i].value : i \in EntriesFor("Statute of Limitations Date")}

\* the dates of the calendar entries created
EntryDates == {calls[i].arg : i \in {j \in 1..Len(calls) : calls[j].op = "create_calendar_entry"}}

StatuteDateIsPlusEight ==
    /\ pc \in {"sol_date", "sol_done"} => StatuteFieldValues = {PlusEightYears}
    /\ pc = "sol_done" => EntryDates = {PlusEightYears}
    /\ input.extraction.accident_date = "2020-02-29" /\ pc = "sol_done"
          => EntryDates = {"2028-02-29"}

\* the claim as stated: for every valid accident date
C20_Original == StatuteDateIsPlusEight

\* C20: for every valid accident date d of a year up to 9991 the statute date
\* is d plus 8 calendar years, the same month and day except that Feb 29
\* becomes Feb 28 (never Mar 1) when the target year is no leap year, and
\* 2020-02-29 gives 2028-02-29; the custom-field value and the calendar
\* entry's date are that same date.  For a later year no statute date exists.
C20_StatuteDate ==
    IF AccidentDate.y <= 9991
    THEN StatuteDateIsPlusEight
    ELSE StatuteFieldValues = {} /\ EntryDates = {}

\* a leap day whose target year is a century year that is no leap year
C20_Witness ==
    /\ pc = "sol_done"
    /\ input.extraction.accident_date = "2092-02-29"
    /\ StatuteFieldValues = {"2100-02-28"}
    /\ EntryDates = {"2100-02-28"}

(***************************************************************************)
(* Calendar resolution.                                                    *)
(***************************************************************************)
\* get_calendars answered in this call
CalendarsFetched ==
    \E i \in 1..Len(calls) : calls[i].op = "get_calendars" /\ calls[i].ok

\* the calendars of the fetched list whose name contains the attorney name,
\* letter case ignored; an empty attorney name matches none
MatchingCalendars ==
    {i \in 1..Len(loc.calendars) :
        /\ loc.me_name # ""
        /\ Contains(Lower(loc.calendars[i].name), Lower(loc.me_name))}

FirstOf(S) == CHOOSE i \in S : \A j \in S : i <= j

\* the id resolve_calendar returned
CalendarResolved == loc.calendar_id # NoneId

Step7Running == Len(steps) = 7 /\ steps[7].status = "running"

\* one metadata fetch of the poller and what follows it
PollStepOk ==
    /\ loc.elapsed < PollMaxWait
    /\ Step7Running
    /\ pc' \in {"poll", "download", "local_in_try", "create_calendar_entry"}
    /\ pc' = "poll" =>
          /\ loc'.elapsed = loc.elapsed + PollInterval
          /\ loc'.elapsed < PollMaxWait
          /\ steps' = steps
    /\ pc' = "download" => steps' = steps /\ result' = result
    /\ pc' = "local_in_try" =>
          /\ loc.elapsed + PollInterval >= PollMaxWait
          /\ loc'.fallback = "timeout"
          /\ steps' = steps
          /\ result' = result
    /\ pc' = "create_calendar_entry" =>
          /\ ~calls'[Len(calls')].ok
          /\ calls'[Len(calls')].op = "get_document"

\* C22: the poller fetches the metadata again until a version id appears or
\* max_wait has elapsed: on the first fetch showing a version it returns the
\* document and fetches no more; when no fetch within the bound shows one it
\* returns None without raising, and run_pipeline then calls local generation
\* with the step still running, not marked error.
C22_PollThenFallback ==
    /\ [][pc = "poll" => PollStepOk]_vars
    /\ [][pc' = "poll" => pc \in {"generate_document", "poll"}]_vars
    /\ [][(pc = "local_in_try" /\ loc.fallback = "timeout") =>
             /\ Step7Running
             /\ Issues("generate_retainer_locally")
             /\ calls'[Len(calls')].arg = "timeout"]_vars

\* the poll timed out, local generation ran and step 7 ended success
C22_Witness ==
    /\ \E i \in LocalIdx : calls[i].arg = "timeout" /\ calls[i].ok
    /\ Cardinality(LocalIdx) = 1
    /\ StepOver(7)
    /\ steps[7].status = "success"
    /\ \E i \in 1..Len(calls) : calls[i].op = "get_document" /\ calls[i].ok

(***************************************************************************)
(* The client email.                                                       *)
(***************************************************************************)
MailCredentialsAbsent == input.smtp_user = "" \/ input.smtp_password = ""

SendAttempts == {i \in 1..Len(calls) : calls[i].op = "smtp_send"}

\* C23: when the mail user or the mail password is empty, send_email ends
\* skipped, nothing is handed to the mail server and no send is attempted; the
\* result's success is then what the other eight steps make it.
C23_NoCredentialsSkips ==
    MailCredentialsAbsent =>
        /\ SendAttempts = {}
        /\ mail = <<>>
        /\ (Len(steps) = 9 /\ pc = "done") =>
              /\ steps[9].name = "send_email"
              /\ steps[9].status = "skipped"
              /\ Returned
              /\ result.success <=>
                    (\A i \in 1..8 : steps[i].status \in {"success", "skipped"})

\* a run without a mail password that ends successful with send_email skipped
C23_Witness ==
    /\ input.smtp_user # ""
    /\ input.smtp_password = ""
    /\ pc = "done"
    /\ Len(steps) = 9
    /\ steps[9].status = "skipped"
    /\ Returned
    /\ result.success

(***************************************************************************)
(* The step records.                                                       *)
(***************************************************************************)
\* one step of the run keeps the records: none is removed, at most one is
\* added, names follow the fixed order, and a terminal record stays as it is
RecordsKept ==
    /\ Len(steps') \in {Len(steps), Len(steps) + 1}
    /\ \A i \in 1..Len(steps') :
          /\ steps'[i].name = StepNames[i]
          /\ steps'[i].status \in {"running", "success", "error", "skipped"}
    /\ \A i \in 1..Len(steps) : Terminal(steps[i]) => steps'[i] = steps[i]
    /\ \A i \in 1..(Len(steps') - 1) : Terminal(steps'[i])

\* when the run is over every record has reached a terminal status, and a
\* returned result carries these records
RecordsTerminal ==
    pc = "done" =>
        /\ \A i \in 1..Len(steps) : Terminal(steps[i])
        /\ Returned => result.steps = steps

\* C24: every step of a returned result is success, error or skipped, never
\* pending or running; each step record is created once, in the fixed order,
\* reaches a terminal status exactly once and is never changed or removed
\* afterwards.
C24_StepRecords == [][RecordsKept /\ RecordsTerminal']_vars

(***************************************************************************)
(* Conditional writes to the matter.                                       *)
(***************************************************************************)
MatterWrites ==
    {i \in 1..Len(calls) :
        calls[i].op \in {"update_matter_custom_fields", "update_matter_stage"}}

\* C25: every conditional write to the matter presents the etag of a fetch of
\* the same matter that is the call issued just before it, in the same step;
\* so no etag read in one step is used for a write of a later step.
C25_EtagReadBeforeWrite ==
    \A i \in MatterWrites :
        /\ i > 1
        /\ calls[i - 1].op = "get_matter"
        /\ calls[i - 1].ok
        /\ calls[i - 1].step = calls[i].step
        /\ calls[i - 1].matter = calls[i].matter
        /\ calls[i - 1].arg = calls[i].arg
        /\ calls[i].matter = loc.result_matter_id

\* both writes were issued, each with the etag of its own fetch
C25_Witness ==
    \E i, j \in MatterWrites :
        /\ calls[i].op = "update_matter_custom_fields"
        /\ calls[j].op = "update_matter_stage"
        /\ calls[i].arg # calls[j].arg
        /\ calls[i].ok /\ calls[j].ok

(***************************************************************************)
(* No retry by the orchestrator.                                           *)
(***************************************************************************)
RemoteWrites ==
    {"create_contact", "create_matter", "update_matter_custom_fields",
     "update_matter_stage", "generate_document_from_template",
     "create_calendar_entry", "smtp_send"}

CallsOf(op, step) == {i \in 1..Len(calls) : calls[i].op = op /\ calls[i].step = step}

StepNamed(name) == {k \in 1..Len(steps) : steps[k].name = name}

\* C26: no step is run again within a run: each step is recorded once, every
\* remote operation is issued at most once by a step, a failed remote write
\* marks its step error and is not issued a second time; only local document
\* generation, the repair path of generate_retainer, may run more than once.
C26_NoOrchestratorRetry ==
    /\ \A k, l \in 1..Len(steps) : steps[k].name = steps[l].name => k = l
    /\ \A i \in 1..Len(calls) :
          /\ calls[i].op # "generate_retainer_locally" =>
                Cardinality(CallsOf(calls[i].op, calls[i].step)) = 1
          /\ calls[i].op \in RemoteWrites =>
                /\ Cardinality({j \in 1..Len(calls) : calls[j].op = calls[i].op}) = 1
                /\ ~calls[i].ok =>
                      \A k \in StepNamed(calls[i].step) : steps[k].status = "error"
          /\ calls[i].op = "generate_retainer_locally" =>
                calls[i].step = "generate_retainer"

\* the write of step 5 failed once, the step is error and the run went on
C26_Witness ==
    /\ pc = "done"
    /\ Len(steps) = 9
    /\ steps[5].status = "error"
    /\ \E i \in CallsOf("update_matter_custom_fields", "update_custom_fields") :
          ~calls[i].ok
    /\ Cardinality(CallsOf("update_matter_custom_fields", "update_custom_fields")) = 1

(***************************************************************************)
(* ClioClient.download_document alone: the platform's answers to the three *)
(* requests it can send are drawn at the start.                            *)
(***************************************************************************)
DocumentIds == {5, 6}

\* what _request meets: 200, or a status it raises as ClioAPIError
ErrorStatuses == {303, 403, 404, 500}

DownloadStatuses == {200} \cup ErrorStatuses

\* the body of GET /documents/{id}: with or without the "data" wrapper, the
\* key latest_document_version missing, null, or an object whose id is null
\* (NoneId), 0 or a version id
MetadataBodies ==
    {[wrapped |-> w, ldv |-> l, id |-> NoneId] : w \in BOOLEAN, l \in {"absent", "null"}}
        \cup {[wrapped |-> w, ldv |-> "object", id |-> i] :
                 w \in BOOLEAN, i \in {NoneId, 0, 41, 42}}

MetadataAnswers ==
    {[status |-> 200, body |-> b] : b \in MetadataBodies}
        \cup {[status |-> st, body |-> [wrapped |-> FALSE, ldv |-> "absent",
                                       id |-> NoneId]] : st \in ErrorStatuses}

\* (doc.get("latest_document_version") or {}).get("id")
LatestVersionId(body) == IF body.ldv = "object" THEN body.id ELSE NoneId

\* resp.content of a download endpoint
Content(endpoint, id) == [kind |-> "bytes", endpoint |-> endpoint, id |-> id]

\* ClioAPIError(status_code, detail); detail tells the response (or the
\* client itself) the error was made from
ClioAPIError(status_code, detail) ==
    [kind |-> "ClioAPIError", status_code |-> status_code, detail |-> detail]

Sent(endpoint, id) == calls' = Append(calls, [endpoint |-> endpoint, id |-> id])

InitDownload ==
    /\ input \in [document_id : DocumentIds, by_id : DownloadStatuses,
                  metadata : MetadataAnswers, by_version : DownloadStatuses]
    /\ pc = "download_document"
    /\ steps = <<>>
    /\ loc = [version |-> NoneId]
    /\ calls = <<>>
    /\ mail = <<>>
    /\ result = NoResult
    /\ contacts = <<>>
    /\ run = 1
    /\ ClientParked

\* mutant: every ClioAPIError of the first request leads to the fallback
DownloadByDocumentIdAnyError ==
    /\ pc = "download_document"
    /\ Sent("documents/download", input.document_id)
    /\ IF input.by_id = 200
          THEN /\ result' = Content("documents/download", input.document_id)
               /\ pc' = "download_done"
          ELSE /\ result' = result
               /\ pc' = "download_metadata"
    /\ UNCHANGED <<input, steps, loc, mail>>

\* GET /documents/{id}/download; except ClioAPIError: re-raised unless 404
DownloadByDocumentId ==
    /\ pc = "download_document"
    /\ Sent("documents/download", input.document_id)
    /\ CASE input.by_id = 200 ->
               /\ result' = Content("documents/download", input.document_id)
               /\ pc' = "download_done"
         [] input.by_id = 404 ->
               /\ result' = result
               /\ pc' = "download_metadata"
         [] OTHER ->
               /\ result' = ClioAPIError(input.by_id, "documents/download")
               /\ pc' = "download_done"
    /\ UNCHANGED <<input, steps, loc, mail>>

\* GET /documents/{id} for latest_document_version{id}; no version: raise 404
DownloadResolveVersion ==
    /\ pc = "download_metadata"
    /\ Sent("documents", input.document_id)
    /\ LET version == LatestVersionId(input.metadata.body)
       IN  CASE input.metadata.status # 200 ->
                    /\ result' = ClioAPIError(input.metadata.status, "documents")
                    /\ pc' = "download_done"
                    /\ loc' = loc
              [] input.metadata.status = 200 /\ (version = NoneId \/ version = 0) ->
                    /\ result' = ClioAPIError(404, "No document version found")
                    /\ pc' = "download_done"
                    /\ loc' = loc
              [] OTHER ->
                    /\ result' = result
                    /\ pc' = "download_version"
                    /\ loc' = [loc EXCEPT !.version = version]
    /\ UNCHANGED <<input, steps, mail>>

\* GET /document_versions/{version}/download
DownloadByVersion ==
    /\ pc = "download_version"
    /\ Sent("document_versions/download", loc.version)
    /\ result' = IF input.by_version = 200
                    THEN Content("document_versions/download", loc.version)
                    ELSE ClioAPIError(input.by_version, "document_versions/download")
    /\ pc' = "download_done"
    /\ UNCHANGED <<input, steps, loc, mail>>

NextDownload ==
    \/ DownloadByDocumentId /\ UNCHANGED <<cvars, rvars>>
    \/ DownloadResolveVersion /\ UNCHANGED <<cvars, rvars>>
    \/ DownloadByVersion /\ UNCHANGED <<cvars, rvars>>

SpecDownload == InitDownload /\ [][NextDownload]_vars

VersionResolved ==
    /\ input.metadata.status = 200
    /\ LatestVersionId(input.metadata.body) \notin {NoneId, 0}

\* C27: download_document asks the by-document endpoint first; it goes on to
\* resolve the latest version and asks the version endpoint once only after a
\* 404; any other status of the first request is the error it raises, with no
\* further request; an answer that holds no version id ends in a 404 error.
C27_DownloadFallback ==
    /\ Len(calls) <= 3
    /\ Len(calls) >= 1 =>
          calls[1] = [endpoint |-> "documents/download", id |-> input.document_id]
    /\ Len(calls) >= 2 =>
          /\ input.by_id = 404
          /\ calls[2] = [endpoint |-> "documents", id |-> input.document_id]
    /\ Len(calls) = 3 =>
          /\ VersionResolved
          /\ calls[3] = [endpoint |-> "document_versions/download",
                          id |-> LatestVersionId(input.metadata.body)]
    /\ pc = "download_done" =>
          /\ input.by_id = 200 =>
                /\ result = Content("documents/download", input.document_id)
                /\ Len(calls) = 1
          /\ input.by_id \notin {200, 404} =>
                /\ result = ClioAPIError(input.by_id, "documents/download")
                /\ Len(calls) = 1
          /\ input.by_id = 404 /\ VersionResolved =>
                /\ Len(calls) = 3
                /\ result = IF input.by_version = 200
                               THEN Content("document_versions/download",
                                            LatestVersionId(input.metadata.body))
                               ELSE ClioAPIError(input.by_version,
                                                 "document_versions/download")
          /\ input.by_id = 404 /\ input.metadata.status = 200 /\ ~VersionResolved =>
                /\ Len(calls) = 2
                /\ result.kind = "ClioAPIError"
                /\ result.status_code = 404

\* a 404 on the document endpoint answered by the bytes of version 42
C27_Witness ==
    /\ pc = "download_done"
    /\ input.by_id = 404
    /\ Len(calls) = 3
    /\ result = Content("document_versions/download", 42)

(***************************************************************************)
(* Steps 3 and 4: the contact and the matter.                              *)
(***************************************************************************)
\* the step after step k is create_matter, recorded or about to be
MatterStepNext(k) ==
    IF Len(steps) = k THEN pc = "create_matter" /\ result = NoResult
    ELSE steps[k + 1].name = "create_matter"

\* C28: create_contact is skipped, with no search and no create, exactly when
\* the plaintiff has no name; a failed search or create leaves the step error;
\* whatever the outcome the next step recorded is create_matter, and
\* create_matter is error only when no matter id was supplied.
C28_ContactThenMatter ==
    /\ \A k \in StepNamed("create_contact") :
          /\ steps[k].status = "skipped" <=> ~HasPlaintiffName
          /\ ~HasPlaintiffName => CallsOfStep("create_contact") = {}
          /\ HasPlaintiffName =>
                CallsOf("find_contact_by_name", "create_contact") # {}
          /\ (\E i \in CallsOfStep("create_contact") : ~calls[i].ok) =>
                steps[k].status = "error"
          /\ steps[k].status # "running" => MatterStepNext(k)
    /\ \A k \in StepNamed("create_matter") :
          /\ k > 1 /\ steps[k - 1].name = "create_contact"
          /\ steps[k].status = "error" => ~TruthyInt(input.matter_id)

\* create_contact failed, the supplied matter was used and the run completed
C28_Witness ==
    /\ pc = "done"
    /\ Len(steps) = 9
    /\ steps[3].name = "create_contact" /\ steps[3].status = "error"
    /\ \E i \in CallsOf("create_contact", "create_contact") : ~calls[i].ok
    /\ steps[4].name = "create_matter" /\ steps[4].status = "skipped"

MatterIdSupplied == TruthyInt(input.matter_id)

StepDone(name) == \E k \in StepNamed(name) : steps[k].status # "running"

\* C29: once step 4 is over, create_matter was called exactly when no matter
\* id was supplied and a contact id was resolved; with a supplied id step 4
\* issues no call at all and a run completing all nine steps returns that id;
\* no matter is created without a contact.
C29_CreateMatterIff ==
    /\ StepDone("create_matter") =>
          (CallsOf("create_matter", "create_matter") # {}
             <=> ~MatterIdSupplied /\ TruthyInt(loc.contact_id))
    /\ CallsOf("create_matter", "create_matter") # {} =>
          ~MatterIdSupplied /\ TruthyInt(loc.contact_id)
    /\ MatterIdSupplied =>
          /\ CallsOfStep("create_matter") = {}
          /\ loc.result_matter_id = input.matter_id
          /\ Returned /\ Len(result.steps) = 9 => result.matter_id = input.matter_id

(***************************************************************************)
(* Step 6: the stage of the matter.                                        *)
(***************************************************************************)
\* the practice area of the run's matter: that of the supplied matter, or the
\* one the matter was created with (None if it was created without one)
MatterPracticeArea ==
    IF MatterIdSupplied THEN ExistingMatter.practice_area ELSE loc.pi_practice_area_id

StageLookups == CallsOf("get_matter_stages", "update_stage")

StageWrites == CallsOf("update_matter_stage", "update_stage")

\* the stage lookup answered and the etag of the matter was fetched
StageWriteDue ==
    /\ TruthyInt(loc.stage_id)
    /\ \E i \in CallsOf("get_matter", "update_stage") : calls[i].ok

\* C30: every run that reaches update_stage looks the stage up, restricted
\* to the practice area of the run's matter, also for a supplied matter; the
\* step is skipped, with no call on the matter, exactly when the lookup
\* answers without a "Data Verified" stage; otherwise the stage found is
\* written, once.
C30_StageLookupAndWrite ==
    /\ StepNamed("update_stage") # {} => StageLookups # {}
    /\ \A i \in StageLookups : calls[i].practice_area = MatterPracticeArea
    /\ \A k \in StepNamed("update_stage") :
          /\ steps[k].status = "skipped" <=>
                (\E i \in StageLookups : calls[i].ok) /\ ~TruthyInt(loc.stage_id)
          /\ steps[k].status = "skipped" =>
                CallsOfStep("update_stage") = StageLookups
          /\ steps[k].status # "running" /\ StageWriteDue =>
                Cardinality(StageWrites) = 1
    /\ Cardinality(StageWrites) <= 1
    /\ \A i \in StageWrites : StageWriteDue /\ calls[i].stage = loc.stage_id

(***************************************************************************)
(* The tokens file during a refresh.                                       *)
(***************************************************************************)
LastRefresh(r) == r.refreshes[Len(r.refreshes)]

\* the token endpoint accepted the refresh of c in this step
RefreshAccepted(c) ==
    /\ req[c].pc = "refresh_wait"
    /\ req'[c].pc # "refresh_wait"
    /\ issued' = issued + 1

\* the write of the tokens file failed in this step: a write that succeeds
\* leaves the pair just issued in the file
WriteFailed == tokens_file' = tokens_file

\* the attempt of c that follows its refresh is sent in this step
RetryAfterRefresh(c) ==
    /\ req[c].pc = "send"
    /\ Len(req[c].refreshes) > 0
    /\ LastRefresh(req[c]).status = 200
    /\ Len(req[c].sent) = LastRefresh(req[c]).after
    /\ Len(req'[c].sent) = Len(req[c].sent) + 1

\* C31: a refresh whose write of the tokens file fails still puts the new
\* pair into the instance, its Authorization header and the settings, and
\* the call goes on to its next attempt instead of raising; that attempt is
\* sent with the new access token.
C31_WriteFailureNotFatal ==
    [][\A c \in Clients :
          /\ RefreshAccepted(c) /\ WriteFailed =>
                /\ client'[c].access_token = NewAccessToken(issued')
                /\ client'[c].refresh_token = NewRefreshToken(issued')
                /\ client'[c].authorization = Bearer(NewAccessToken(issued'))
                /\ settings' = [access_token |-> NewAccessToken(issued'),
                                refresh_token |-> NewRefreshToken(issued')]
                /\ req'[c].pc = "send"
                /\ req'[c].attempt = req[c].attempt + 1
          /\ RetryAfterRefresh(c) =>
                /\ req'[c].sent[Len(req'[c].sent)] = Bearer(client[c].access_token)
                /\ \E n \in 1..issued : client[c].access_token = NewAccessToken(n)
                /\ req'[c].sent[Len(req'[c].sent)] # req[c].sent[Len(req[c].sent)]]_vars

\* the one refresh left no tokens file behind and the call returned on the
\* attempt sent with the new access token
C31_Witness ==
    \E c \in Clients :
        /\ req[c].pc = "returned"
        /\ issued = 1
        /\ Len(req[c].refreshes) = 1 /\ req[c].refreshes[1].status = 200
        /\ tokens_file.state = "absent"
        /\ req[c].sent[2] = Bearer(NewAccessToken(1))
        /\ settings.access_token = NewAccessToken(1)

(***************************************************************************)
(* ClioClient() alone: the settings and the tokens file are drawn at the   *)
(* start, each token present or empty (in the file also null), and the two *)
(* clients are built.                                                      *)
(***************************************************************************)
SettingsAtConstruction ==
    [access_token : {"", "access-0"}, refresh_token : {"", "refresh-0"}]

FilesAtConstruction ==
    {NoFile, [state |-> "unreadable", access_token |-> "", refresh_token |-> ""]}
        \cup [state : {"ok"}, access_token : {"", NoneS, "access-f"},
              refresh_token : {"", NoneS, "refresh-f"}]

InitConstruct ==
    /\ settings \in SettingsAtConstruction
    /\ tokens_file \in FilesAtConstruction
    /\ client = [c \in Clients |-> NoClient]
    /\ req = [c \in Clients |-> IdleRequest]
    /\ issued = 0
    /\ started = 0
    /\ poll = PollIdle
    /\ callbacks = <<>>
    /\ replaced = {}
    /\ PipelineParked

NextConstruct ==
    \E c \in Clients : ClioClientInit(c) /\ UNCHANGED <<pvars, poll, callbacks>>

SpecConstruct == InitConstruct /\ [][NextConstruct]_vars

Constructed(c) == ~client[c].alive /\ client'[c].alive

\* the token the code keeps for an in-memory value and a cached one
Kept(memory, cached) ==
    IF memory # "" THEN memory
    ELSE IF tokens_file.state = "ok" /\ Truthy(cached) THEN cached
    ELSE memory

\* C32: a client under construction keeps each non-empty in-memory token,
\* takes the cached token for an empty one when the cache holds a non-empty
\* one, and with an absent or unreadable cache is built from the in-memory
\* values, which stay as they were.
C32_ConstructionTokens ==
    [][\A c \in Clients : Constructed(c) =>
          /\ client'[c].access_token = Kept(settings.access_token, tokens_file.access_token)
          /\ client'[c].refresh_token =
                Kept(settings.refresh_token, tokens_file.refresh_token)
          /\ settings'.access_token = client'[c].access_token
          /\ settings'.refresh_token = client'[c].refresh_token
          /\ client'[c].authorization = Bearer(client'[c].access_token)
          /\ tokens_file.state # "ok" =>
                /\ settings' = settings
                /\ client'[c].access_token = settings.access_token
                /\ client'[c].refresh_token = settings.refresh_token
          /\ tokens_file' = tokens_file]_vars

\* the empty access token came from the cache, the refresh token did not
C32_Witness ==
    /\ client["A"].alive
    /\ client["A"].access_token = "access-f"
    /\ client["A"].refresh_token = "refresh-0"
    /\ tokens_file.refresh_token = "refresh-f"

(***************************************************************************)
(* Two approvals of the same extraction running at once: step 3 of each    *)
(* run against one platform.  pc, steps and loc are held per run.          *)
(***************************************************************************)
Approvals == {1, 2}

ApprovalLocals == [contact_id |-> NoneId]

InitApprovals ==
    /\ \E ex \in Extractions :
          input = [extraction |-> ex, matter_id |-> NoneId, smtp_user |-> "",
                   smtp_password |-> ""]
    /\ pc = [r \in Approvals |-> "create_contact"]
    /\ steps = [r \in Approvals |-> <<>>]
    /\ loc = [r \in Approvals |-> ApprovalLocals]
    /\ calls = <<>>
    /\ mail = <<>>
    /\ result = NoResult
    /\ contacts \in ContactsAtStart
    /\ run = 1
    /\ ClientParked

LogOfRun(r, op, ok) == calls' = Append(calls, [run |-> r, op |-> op, ok |-> ok])

\* lines 205-216 in run r: the step is opened and the plaintiff searched
FindContactOfRun(r) ==
    /\ pc[r] = "create_contact"
    /\ LET s1 == <<NewStep("create_contact")>>
       IN  IF HasPlaintiffName
           THEN \E existing \in {Raises, FindOnPlatform} :
                   /\ LogOfRun(r, "find_contact_by_name", existing.ok)
                   /\ IF ~existing.ok
                      THEN /\ loc' = loc
                           /\ steps' = [steps EXCEPT ![r] =
                                 SetLast(s1, "error", "find_contact_by_name failed")]
                           /\ pc' = [pc EXCEPT ![r] = "create_matter"]
                      ELSE IF existing.id # NoneId
                      THEN /\ loc' = [loc EXCEPT ![r].contact_id = existing.id]
                           /\ steps' = [steps EXCEPT ![r] =
                                 SetLast(s1, "success", "Found existing contact")]
                           /\ pc' = [pc EXCEPT ![r] = "create_matter"]
                      ELSE /\ loc' = loc
                           /\ steps' = [steps EXCEPT ![r] = s1]
                           /\ pc' = [pc EXCEPT ![r] = "create_contact_post"]
           ELSE /\ steps' = [steps EXCEPT ![r] =
                      SetLast(s1, "skipped", "No plaintiff found in extraction data")]
                /\ pc' = [pc EXCEPT ![r] = "create_matter"]
                /\ UNCHANGED <<loc, calls>>
    /\ UNCHANGED <<input, mail, result, contacts, run>>

\* the contact the platform stores for the create_contact of run r
NewContactOfRun(r) ==
    LET nm == SplitName(input.extraction.parties[Plaintiff].full_name)
    IN  Contact(MaxId(contacts) + 1, nm[1], nm[2], r)

\* mutant: run r searches once more and uses a contact created meanwhile
CreateContactOfRunRechecks(r) ==
    /\ pc[r] = "create_contact_post"
    /\ IF FindOnPlatform.id # NoneId
       THEN /\ LogOfRun(r, "find_contact_by_name", TRUE)
            /\ contacts' = contacts
            /\ loc' = [loc EXCEPT ![r].contact_id = FindOnPlatform.id]
            /\ steps' = [steps EXCEPT ![r] =
                  SetLast(steps[r], "success", "Found existing contact")]
       ELSE /\ LogOfRun(r, "create_contact", TRUE)
            /\ contacts' = Append(contacts, NewContactOfRun(r))
            /\ loc' = [loc EXCEPT ![r].contact_id = NewContactOfRun(r).id]
            /\ steps' = [steps EXCEPT ![r] =
                  SetLast(steps[r], "success", "Created contact")]
    /\ pc' = [pc EXCEPT ![r] = "create_matter"]
    /\ UNCHANGED <<input, mail, result, run>>

\* lines 217-229 in run r: no match was returned, the contact is created; the
\* platform stores it and answers, or the call raises (stored or not)
CreateContactOfRun(r) ==
    /\ pc[r] = "create_contact_post"
    /\ \E ok \in BOOLEAN, stored \in BOOLEAN :
          /\ ok => stored
          /\ LogOfRun(r, "create_contact", ok)
          /\ contacts' = IF stored THEN Append(contacts, NewContactOfRun(r))
                         ELSE contacts
          /\ IF ok
             THEN /\ loc' = [loc EXCEPT ![r].contact_id = NewContactOfRun(r).id]
                  /\ steps' = [steps EXCEPT ![r] =
                        SetLast(steps[r], "success", "Created contact")]
             ELSE /\ loc' = loc
                  /\ steps' = [steps EXCEPT ![r] =
                        SetLast(steps[r], "error", "create_contact failed")]
    /\ pc' = [pc EXCEPT ![r] = "create_matter"]
    /\ UNCHANGED <<input, mail, result, run>>

NextApprovals ==
    \E r \in Approvals :
        \/ FindContactOfRun(r) /\ UNCHANGED cvars
        \/ CreateContactOfRun(r) /\ UNCHANGED cvars

SpecApprovals == InitApprovals /\ [][NextApprovals]_vars

CallsNamed(op) == {i \in 1..Len(calls) : calls[i].op = op}

\* the searches of run r that were answered
SearchesOf(r) ==
    {i \in CallsNamed("find_contact_by_name") : calls[i].run = r /\ calls[i].ok}

\* both runs searched, and got an answer, before either run created
BothSearchedFirst ==
    /\ CallsNamed("create_contact") # {}
    /\ \A r \in Approvals :
          \E i \in SearchesOf(r) : \A j \in CallsNamed("create_contact") : i < j

CreatedBy(r) == {i \in 1..Len(contacts) : contacts[i].created_by = r}

\* C33: when both runs have searched before either creates and neither
\* search matched, each run goes on to create: once both creates have
\* answered the platform holds two contacts of the same name, one per run,
\* and the runs hold different contact ids.
C33_DuplicateContacts ==
    (/\ BothSearchedFirst
     /\ \A r \in Approvals : pc[r] = "create_matter"
     /\ \A i \in 1..Len(calls) : calls[i].ok) =>
        /\ \A r \in Approvals :
              /\ Cardinality(CreatedBy(r)) = 1
              /\ steps[r][1].status = "success"
              /\ \E i \in CreatedBy(r) : contacts[i].id = loc[r].contact_id
        /\ loc[1].contact_id # loc[2].contact_id
        /\ \A i \in CreatedBy(1), j \in CreatedBy(2) :
              /\ contacts[i].first_name = contacts[j].first_name
              /\ contacts[i].last_name = contacts[j].last_name

\* both runs searched first, both created: two contacts for one plaintiff
C33_Witness ==
    /\ BothSearchedFirst
    /\ \A r \in Approvals : pc[r] = "create_matter" /\ CreatedBy(r) # {}
    /\ loc[1].contact_id # loc[2].contact_id
    /\ loc[1].contact_id # NoneId /\ loc[2].contact_id # NoneId

(***************************************************************************)
(* Step 9: the attachment of the client email.                             *)
(***************************************************************************)
\* generate_retainer recorded a document: downloaded or generated locally
DocumentProduced ==
    \E k \in StepNamed("generate_retainer") :
        /\ steps[k].status = "success"
        /\ steps[k].detail \in {"Clio doc, downloaded", "Clio doc, local PDF generated",
                                "Local PDF generated"}

\* C34: a message handed to the mail server carries the contract exactly
\* when generate_retainer recorded a non-empty document, and then it is that
\* document; with mail credentials set the send is attempted whatever the
\* outcome of generate_retainer, without attachment when it left none.
C34_AttachmentIffDocument ==
    /\ Len(mail) <= 1
    /\ \A i \in 1..Len(mail) :
          /\ mail[i].attachment # NoneId <=> DocumentProduced
          /\ mail[i].attachment # NoneId =>
                mail[i].attachment = loc.retainer_bytes /\ mail[i].attachment > 0
    /\ (pc = "done" /\ Len(steps) = 9 /\ SmtpConfigured) =>
          /\ Cardinality(SendAttempts) = 1
          /\ (\A i \in SendAttempts : calls[i].ok) => Len(mail) = 1

\* generate_retainer ended error after an empty download and the email was
\* sent without attachment
C34_Witness ==
    /\ pc = "done"
    /\ Len(steps) = 9
    /\ steps[7].status = "error"
    /\ loc.retainer_bytes = 0
    /\ Len(mail) = 1
    /\ mail[1].attachment = NoneId

(***************************************************************************)
(* The booking link of the client email: the accident date and the day the *)
(* email is built are drawn at the start, step 9 selects the link.         *)
(***************************************************************************)
InOfficeBookingUrl == "https://calendly.com/richards-law/in-office"

VirtualBookingUrl == "https://calendly.com/richards-law/virtual"

Months == 1..12

\* reference_date=None
NoReferenceDate == [ok |-> FALSE, y |-> 0, m |-> 0, d |-> 0]

\* mutant: September still counts as in-office
GetBookingLinkThroughSeptember(in_office_url, virtual_url, reference_date, now) ==
    LET date == IF reference_date # NoReferenceDate THEN reference_date ELSE now
        month == date.m
    IN  IF 3 <= month /\ month <= 9
        THEN [link |-> in_office_url, type |-> "in-office"]
        ELSE [link |-> virtual_url, type |-> "virtual"]

\* get_booking_link(in_office_url, virtual_url, reference_date), `now` being
\* what datetime.now() answers
GetBookingLink(in_office_url, virtual_url, reference_date, now) ==
    LET date == IF reference_date # NoReferenceDate THEN reference_date ELSE now
        month == date.m
    IN  IF 3 <= month /\ month <= 8
        THEN [link |-> in_office_url, type |-> "in-office"]
        ELSE [link |-> virtual_url, type |-> "virtual"]

InitBooking ==
    /\ \E am \in Months, nm \in Months :
          input = [extraction |-> [ExFull EXCEPT !.accident_date =
                                      "2023-" \o Pad2(am) \o "-15"],
                   matter_id |-> 7, smtp_user |-> "firm@example.com",
                   smtp_password |-> "pw",
                   now |-> [ok |-> TRUE, y |-> 2026, m |-> nm, d |-> 4]]
    /\ pc = "booking_link"
    /\ steps = <<>>
    /\ loc = [booking_link |-> NoneS, booking_type |-> NoneS]
    /\ calls = <<>>
    /\ mail = <<>>
    /\ result = NoResult
    /\ contacts = <<>>
    /\ run = 1
    /\ ClientParked

\* clio_pipeline.py lines 430-433: no reference date is passed
SelectBookingLink ==
    /\ pc = "booking_link"
    /\ LET booking == GetBookingLink(InOfficeBookingUrl, VirtualBookingUrl,
                                     NoReferenceDate, input.now)
       IN  loc' = [loc EXCEPT !.booking_link = booking.link,
                              !.booking_type = booking.type]
    /\ pc' = "booking_done"
    /\ UNCHANGED <<input, steps, calls, mail, result>>

NextBooking == SelectBookingLink /\ UNCHANGED <<cvars, rvars>>

SpecBooking == InitBooking /\ [][NextBooking]_vars

\* the month of the accident
EventMonth == Strptime(input.extraction.accident_date).m

\* C35 as stated: the link of the email is the in-person one for an accident
\* in March to August and the remote one for an accident in September to
\* February.
C35_Original ==
    pc = "booking_done" =>
        IF 3 <= EventMonth /\ EventMonth <= 8
        THEN loc.booking_link = InOfficeBookingUrl /\ loc.booking_type = "in-office"
        ELSE loc.booking_link = VirtualBookingUrl /\ loc.booking_type = "virtual"

\* C35 amended: the link is selected by the month in which the email is
\* built: in-person from March to August, remote from September to February,
\* whatever the month of the accident.
C35_LinkByCurrentMonth ==
    pc = "booking_done" =>
        IF input.now.m \in 3..8
        THEN loc.booking_link = InOfficeBookingUrl /\ loc.booking_type = "in-office"
        ELSE loc.booking_link = VirtualBookingUrl /\ loc.booking_type = "virtual"

\* a January accident, the email built in June: the in-person link
C35_Witness ==
    /\ pc = "booking_done"
    /\ EventMonth = 1
    /\ input.now.m = 6
    /\ loc.booking_link = InOfficeBookingUrl

(***************************************************************************)
(* Step 8: the calendar entry.                                             *)
(***************************************************************************)
CalendarInputsPresent ==
    Truthy(input.extraction.accident_date) /\ TruthyInt(loc.attorney_id)

EntryPosts == CallsOf("create_calendar_entry", "create_calendar_entry")

\* C36: create_calendar_entry is skipped, and then issues no call, exactly
\* when the accident date or the attorney id is missing; otherwise the entry
\* creation is attempted once: at most one entry is posted, the step is
\* success exactly when that post answered, and a date that does not parse,
\* an empty calendar list or any raised call leave it error; the records of
\* the earlier steps stay as they are and send_email is the next step.
C36_CalendarEntryStep ==
    /\ [](\A k \in StepNamed("create_calendar_entry") :
            /\ steps[k].status = "skipped" <=> ~CalendarInputsPresent
            /\ steps[k].status = "skipped" => CallsOfStep("create_calendar_entry") = {}
            /\ Cardinality(EntryPosts) <= 1
            /\ steps[k].status = "success" <=> \E i \in EntryPosts : calls[i].ok
            /\ (/\ steps[k].status # "running"
                /\ CalendarInputsPresent
                /\ \/ ~Strptime(input.extraction.accident_date).ok
                   \/ \E i \in CallsOfStep("create_calendar_entry") : ~calls[i].ok
                   \/ (\E i \in CallsOf("get_calendars", "create_calendar_entry") :
                          calls[i].ok) /\ Len(loc.calendars) = 0)
                  => steps[k].status = "error"
            /\ steps[k].status # "running" =>
                  IF Len(steps) = k THEN pc = "send_email" /\ result = NoResult
                  ELSE steps[k + 1].name = "send_email")
    /\ [][\A i \in 1..(Len(steps) - 1) : Len(steps') > i /\ steps'[i] = steps[i]]_vars

\* the calendar list came back empty, the step is error and the email went out
C36_Witness ==
    /\ pc = "done"
    /\ Len(steps) = 9
    /\ steps[8].status = "error"
    /\ steps[8].detail = "No calendars found in Clio"
    /\ EntryPosts = {}
    /\ steps[9].status = "success"
    /\ \A i \in 1..7 : steps[i].status \in {"success", "skipped"}

(***************************************************************************)
(* The order of the steps.                                                 *)
(***************************************************************************)
RunningSteps == {i \in 1..Len(steps) : steps[i].status = "running"}

\* C37: at most one step is running and it is the last one recorded, all
\* records before it being terminal; the recorded names are the first
\* Len(steps) names of the fixed order; every call is issued by the step
\* recorded last; a returned result has 1, 4 or 9 steps.
C37_SequentialSteps ==
    /\ [](/\ Cardinality(RunningSteps) <= 1
          /\ \A i \in RunningSteps : i = Len(steps)
          /\ \A i \in 1..(Len(steps) - 1) : Terminal(steps[i])
          /\ Len(steps) <= Len(StepNames)
          /\ \A i \in 1..Len(steps) : steps[i].name = StepNames[i]
          /\ Returned => Len(result.steps) \in {1, 4, 9})
    /\ [][Len(calls') > Len(calls) =>
            /\ Len(steps') > 0
            /\ calls'[Len(calls')].step = steps'[Len(steps')].name]_vars

\* step 7 is running after six terminal steps
C37_Witness ==
    /\ Len(steps) = 7
    /\ steps[7].status = "running"
    /\ \A i \in 1..6 : Terminal(steps[i])
    /\ \E i \in 1..6 : steps[i].status = "error"

(***************************************************************************)
(* The matter of the result.                                               *)
(***************************************************************************)
\* C38: a returned result has a matter url exactly when it has a matter id,
\* and has both exactly when it carries all nine steps, the url being that of
\* the matter; a result returned after step 1 or after step 4 has neither.
C38_UrlIffMatter ==
    Returned =>
        /\ result.matter_url # NoneS <=> result.matter_id # NoneId
        /\ result.matter_id # NoneId <=> Len(result.steps) = 9
        /\ Len(result.steps) = 9 =>
              /\ result.matter_id = loc.result_matter_id
              /\ result.matter_id > 0
              /\ result.matter_url = MatterUrl(result.matter_id)
        /\ Len(result.steps) \in {1, 4} =>
              result.matter_id = NoneId /\ result.matter_url = NoneS

\* the run stopped after create_matter: neither id nor url, although the
\* caller had passed matter id 0
C38_Witness ==
    /\ Returned
    /\ Len(result.steps) = 4
    /\ input.matter_id = 0
    /\ result.matter_id = NoneId
    /\ result.matter_url = NoneS

(***************************************************************************)
(* A refresh the token endpoint rejects.                                   *)
(***************************************************************************)
\* the token endpoint answers the refresh of c in this step, and not with 200
RefreshRejectedNow(c) ==
    /\ req[c].pc = "refresh_wait"
    /\ req'[c].pc # "refresh_wait"
    /\ LastRefresh(req'[c]).status # 200

\* the call of c in progress or just ended had its refresh rejected
RefreshWasRejected(c) ==
    /\ Len(req[c].refreshes) > 0
    /\ LastRefresh(req[c]).status \notin {0, 200}

\* C39: a refresh answered with a status other than 200 changes neither the
\* instance (tokens and Authorization header), nor the settings, nor the
\* tokens file; the call ends raised with that status and sends no further
\* attempt.
C39_RejectedRefresh ==
    /\ [][\A c \in Clients : RefreshRejectedNow(c) =>
            /\ client' = client
            /\ settings' = settings
            /\ tokens_file' = tokens_file
            /\ issued' = issued
            /\ req'[c].pc = "raised"
            /\ req'[c].status = LastRefresh(req'[c]).status
            /\ req'[c].sent = req[c].sent]_vars
    /\ [](\A c \in Clients : RefreshWasRejected(c) =>
            /\ req[c].pc = "raised"
            /\ req[c].status = LastRefresh(req[c]).status
            /\ Len(req[c].sent) = LastRefresh(req[c]).after
            /\ Len(req[c].refreshes) = 1)

\* the refresh was rejected with 400: the call raised 400 after its one
\* attempt and the instance still holds the pair it started with
C39_Witness ==
    \E c \in Clients :
        /\ req[c].pc = "raised"
        /\ req[c].status = 400
        /\ Len(req[c].sent) = 1
        /\ req[c].refreshes[1].status = 400
        /\ client[c].access_token = "access-0"
        /\ client[c].authorization = req[c].sent[1]
        /\ tokens_file.state = "absent"

====
